---- MODULE Spec2Model ----
(***************************************************************************)
(* A model of the session handles (api/sessions.py) and of the file cache  *)
(* (models/file.py) of the inferencesh SDK.                                *)
(*                                                                         *)
(* Python values are modelled as follows: an Optional argument is a        *)
(* sequence of length at most one (<<>> is None / omitted), a dict is a    *)
(* set of <<key, value>> pairs, the outcome of an operation is             *)
(* [kind |-> "return" | "raise", val |-> ...].                             *)
(***************************************************************************)
EXTENDS Integers, Sequences, FiniteSets, TLC

VARIABLES
    ctor,     \* the arguments the handles were constructed with
    h,        \* SessionHandle: [app, session_id, ended]
    ah,       \* AsyncSessionHandle: [app, session_id, ended]
    log,      \* exchanges of the blocking client with the remote side, in order
    alog,     \* exchanges of the suspending client with the remote side, in order
    res,      \* outcome of the last blocking operation
    ares,     \* outcome of the last suspending operation
    scope,    \* "plain" (no with-block), "none" (block not entered), "in", "exited"
    lastOp,   \* the last operation the caller performed, with its arguments
    nops,     \* number of operations performed so far
    engine,   \* the execution engine: its sessions, by session id
    fs,       \* the cache directory tree: file name -> inode (0: no such file)
    inodes,   \* the content of each inode: the chunks written to it
    files,    \* the File instances under construction, one per resolver
    env,      \* os.environ.get("FILE_CACHE_DIR"): <<>> if unset
    objs,     \* the File objects the caller holds, by reference
    cres,     \* the last construction or coercion: its arguments and outcome
    disk,     \* the size in bytes of each local file outside the cache
    decl,     \* the annotations of the fields of a record class, in order
    schema,   \* <<the JSON schema generated for the class>>, <<>> before
    made,     \* the MetaItem instances constructed so far, in order
    meta,     \* <<the OutputMeta made of them>>, <<>> before
    co        \* coroutines running on one AsyncSessionHandle

svars == <<ctor, h, ah, log, alog, res, ares, scope, lastOp, nops>>

evars == <<engine>>

fvars == <<fs, inodes, files>>

cvars == <<env, objs, cres, disk>>

jvars == <<decl, schema>>

mvars == <<made, meta>>

vars == <<svars, evars, fvars, cvars, jvars, mvars, co>>

(***************************************************************************)
(* Bounds                                                                  *)
(***************************************************************************)
MaxOps == 3

MaxSessions == 2

MaxResolvers == 2

MaxChunks == 2

MaxFields == 3

MaxItems == 3

MaxTasks == 3

Apps == {"my-app"}
HandleSessions == {"new", "s1"}
ApiSessions == {"s1"}

\* The (function, input) arguments a caller passes to call().
CallArgs ==
    { <<<<>>, <<>>>>,
      <<<<"process">>, <<{}>>>>,
      <<<<"process">>, <<{<<"data", "d">>}>>>> }

(***************************************************************************)
(* Outcomes and the remote side as an oracle                               *)
(***************************************************************************)
None == "None"

Ret(v) == [kind |-> "return", val |-> v]

Raise(e) == [kind |-> "raise", val |-> e]

\* What the transport can answer to a session endpoint request.
RequestResponses == {Ret("data"), Raise("SessionNotFoundError")}

\* The listing endpoint may also answer with nothing or with an empty list.
ListResponses == RequestResponses \cup {Ret(None), Ret("[]")}

\* What the invocation layer can answer to run().
RunResponses == {Ret("envelope"), Raise("TransportError")}

\* Python truthiness of a transport result (None and [] are falsy).
Falsy(v) == v \in {None, "[]"}

\* client._request(method, path): one round trip, answered by resp.
Client_request(method, path, resp) ==
    [sent |-> <<[req |-> [layer |-> "request", method |-> method, path |-> path],
                 resp |-> resp]>>,
     out |-> resp]

\* client.run(params): one invocation, answered by resp.
Client_run(params, resp) ==
    [sent |-> <<[req |-> [layer |-> "run", params |-> params], resp |-> resp]>>,
     out |-> resp]

(***************************************************************************)
(* The execution engine behind the invocation layer and the session        *)
(* endpoints: it keeps the sessions and, per session, the values set in it *)
(***************************************************************************)
IdNames == <<"s1", "s2", "s3", "s4">>

SessionIds == {IdNames[i] : i \in 1..MaxSessions}

Keys == {"k"}

Values == {"v", "w"}

\* d[key] of a dict d, None when the key is missing.
DictGet(d, key) ==
    IF \E p \in d : p[1] = key THEN (CHOOSE p \in d : p[1] = key)[2] ELSE None

NoSession == [status |-> "absent", state |-> [k \in Keys |-> None], call_count |-> 0]

Engine_init == [sid \in SessionIds |-> NoSession]

Engine_freeIds(eng) == {i \in 1..MaxSessions : eng[IdNames[i]].status = "absent"}

\* The id a session created now gets: the first one not yet given out.
Engine_newId(eng) ==
    IdNames[CHOOSE i \in Engine_freeIds(eng) : \A j \in Engine_freeIds(eng) : i <= j]

\* The app's function applied to a session's state: [state, output].
Engine_apply(state, function, input) ==
    CASE function = "set_value" ->
            [state |-> [state EXCEPT ![DictGet(input, "key")] = DictGet(input, "value")],
             output |-> [success |-> TRUE, key |-> DictGet(input, "key"),
                         value |-> DictGet(input, "value")]]
      [] function = "get_value" ->
            [state |-> state,
             output |-> [found |-> state[DictGet(input, "key")] # None,
                         value |-> state[DictGet(input, "key")]]]
      [] OTHER ->
            [state |-> state, output |-> [error |-> "unknown function"]]

\* Mutant: an engine with one state for all sessions of an app.
Engine_run_SharedState(eng, params) ==
    LET sid == IF params.session = "new" THEN Engine_newId(eng) ELSE params.session
    IN  IF sid \notin SessionIds \/ (params.session # "new" /\ eng[sid].status = "absent")
        THEN [eng |-> eng, resp |-> Raise("SessionNotFoundError")]
        ELSE IF eng[sid].status = "expired"
        THEN [eng |-> eng, resp |-> Raise("SessionExpiredError")]
        ELSE IF eng[sid].status = "ended"
        THEN [eng |-> eng, resp |-> Raise("SessionEndedError")]
        ELSE LET r == Engine_apply(eng[sid].state, params.function, params.input)
             IN  [eng |-> [x \in SessionIds |->
                              IF x = sid
                              THEN [status |-> "active", state |-> r.state,
                                    call_count |-> eng[sid].call_count + 1]
                              ELSE [eng[x] EXCEPT !.state = r.state]],
                  resp |-> Ret([status |-> "COMPLETED", session_id |-> sid,
                                output |-> r.output])]

\* One invocation: session "new" creates a session and gives it a fresh id, a
\* concrete id continues that session if it is active and fails otherwise.
Engine_run(eng, params) ==
    LET sid == IF params.session = "new" THEN Engine_newId(eng) ELSE params.session
    IN  IF sid \notin SessionIds \/ (params.session # "new" /\ eng[sid].status = "absent")
        THEN [eng |-> eng, resp |-> Raise("SessionNotFoundError")]
        ELSE IF eng[sid].status = "expired"
        THEN [eng |-> eng, resp |-> Raise("SessionExpiredError")]
        ELSE IF eng[sid].status = "ended"
        THEN [eng |-> eng, resp |-> Raise("SessionEndedError")]
        ELSE LET r == Engine_apply(eng[sid].state, params.function, params.input)
             IN  [eng |-> [eng EXCEPT ![sid] =
                              [status |-> "active", state |-> r.state,
                               call_count |-> eng[sid].call_count + 1]],
                  resp |-> Ret([status |-> "COMPLETED", session_id |-> sid,
                                output |-> r.output])]

\* The session record the endpoints answer with.
Engine_record(eng, sid) ==
    [id |-> sid, status |-> eng[sid].status, call_count |-> eng[sid].call_count]

\* The session endpoints: GET /sessions/{id}, POST /sessions/{id}/keepalive,
\* DELETE /sessions/{id}.
Engine_request(eng, method, path) ==
    LET sid == path[2]
    IN  IF sid \notin SessionIds \/ eng[sid].status = "absent"
        THEN [eng |-> eng, resp |-> Raise("SessionNotFoundError")]
        ELSE IF method = "get" /\ Len(path) = 2
        THEN [eng |-> eng, resp |-> Ret(Engine_record(eng, sid))]
        ELSE IF method = "post" /\ Len(path) = 3 /\ path[3] = "keepalive"
        THEN IF eng[sid].status = "expired"
             THEN [eng |-> eng, resp |-> Raise("SessionExpiredError")]
             ELSE IF eng[sid].status = "ended"
             THEN [eng |-> eng, resp |-> Raise("SessionEndedError")]
             ELSE [eng |-> eng, resp |-> Ret(Engine_record(eng, sid))]
        ELSE IF method = "delete" /\ Len(path) = 2
        THEN [eng |-> [eng EXCEPT ![sid].status = "ended"], resp |-> Ret(None)]
        ELSE [eng |-> eng, resp |-> Raise("MethodNotAllowed")]

\* The engine serving one request of the client; a request the transport
\* loses raises and never reaches the engine.
Engine_serve(eng, req, delivered) ==
    IF ~delivered
    THEN [eng |-> eng, resp |-> Raise("TransportError")]
    ELSE IF req.layer = "run"
    THEN Engine_run(eng, req.params)
    ELSE Engine_request(eng, req.method, req.path)

(***************************************************************************)
(* File (models/file.py): resolving a remote URL into the local cache.     *)
(* A URL is the record urlparse() makes of it, its path the sequence of    *)
(* its segments (a trailing "" for a trailing slash). The cache directory  *)
(* is shared by all resolvers, threads or processes; it follows POSIX: a   *)
(* name refers to an inode, an open file keeps its inode when the name is  *)
(* unlinked or renamed.                                                    *)
(***************************************************************************)
Resolvers == 1..MaxResolvers

\* https://example.com/files/a.txt and http://example.com/files/?v=2
Urls ==
    { [scheme |-> "https", netloc |-> "example.com", path |-> <<"files", "a.txt">>,
       query |-> "", fragment |-> ""],
      [scheme |-> "http", netloc |-> "example.com", path |-> <<"files", "">>,
       query |-> "v=2", fragment |-> ""] }

\* The body the network serves for a URL, in blocks of block_size bytes.
Body == [i \in 1..MaxChunks |-> i]

\* os.path.basename of a URL path.
Basename(path) == IF path = <<>> THEN "" ELSE path[Len(path)]

\* sha256(netloc + path [+ "?" + query]).hexdigest()[:12]: the digest is taken
\* to be collision free, so it is the triple it is computed from.
UrlHash(url) == <<url.netloc, url.path, url.query>>

File_get_cache_path(url) ==
    [dir |-> UrlHash(url),
     name |-> IF Basename(url.path) = "" THEN "download" ELSE Basename(url.path),
     suffix |-> ""]

\* str(cache_path) + ".tmp"
TmpPath(cache_path) == [cache_path EXCEPT !.suffix = ".tmp"]

File_is_url(url) == url.scheme \in {"http", "https"}

Names == UNION { {File_get_cache_path(u), TmpPath(File_get_cache_path(u))} : u \in Urls }

\* No File instance yet.
NoFile ==
    [pc |-> "none", uri |-> <<>>, path |-> <<>>, tmp_path |-> <<>>,
     chunking |-> TRUE, fd |-> 0, pos |-> 0, wrote |-> <<>>, requests |-> 0]

\* An inode nobody refers to any more is gone.
Collect(dir, ino, fl) ==
    [i \in Resolvers |->
        IF (\E n \in Names : dir[n] = i) \/ (\E r \in Resolvers : fl[r].fd = i)
        THEN ino[i] ELSE <<>>]

\* data written at offset pos of content (a hole reads as 0).
WriteAt(content, pos, data) ==
    [i \in 1..(IF pos + Len(data) > Len(content) THEN pos + Len(data) ELSE Len(content)) |->
        IF i > pos /\ i <= pos + Len(data) THEN data[i - pos]
        ELSE IF i <= Len(content) THEN content[i] ELSE 0]

\* os.unlink(name), failures swallowed.
Unlink(dir, name) == IF dir[name] # 0 THEN [dir EXCEPT ![name] = 0] ELSE dir

\* File(uri=url): the fields are set, resolution is about to start.
FileNew(r) ==
    /\ files[r].pc = "none"
    /\ \A q \in Resolvers : q < r => files[q].pc # "none"
    /\ \E url \in Urls :
          /\ File_is_url(url)
          /\ files' = [files EXCEPT ![r] = [NoFile EXCEPT !.pc = "init", !.uri = <<url>>]]
    /\ UNCHANGED <<fs, inodes>>

\* Mutant: _download_url that never looks for a cached file.
FileStart_NoCacheCheck(r) ==
    /\ files[r].pc = "init"
    /\ LET cache_path == File_get_cache_path(files[r].uri[1])
       IN  files' = [files EXCEPT ![r].pc = "urlopen",
                                  ![r].tmp_path = <<TmpPath(cache_path)>>]
    /\ UNCHANGED <<fs, inodes>>

\* _download_url up to the choice of the temporary name: a file at the cache
\* path is reused as it is; with none there, making the directory of the
\* cache path may fail, which ends the construction.
FileStart(r) ==
    /\ files[r].pc = "init"
    /\ LET cache_path == File_get_cache_path(files[r].uri[1])
       IN  IF fs[cache_path] # 0
           THEN files' = [files EXCEPT ![r].pc = "done", ![r].path = <<cache_path>>]
           ELSE \/ files' = [files EXCEPT ![r].pc = "urlopen",
                                          ![r].tmp_path = <<TmpPath(cache_path)>>]
                \/ files' = [files EXCEPT ![r].pc = "failed"]
    /\ UNCHANGED <<fs, inodes>>

\* urllib.request.urlopen(req): the request is sent; it is answered by a
\* response that reads in blocks, by one that only reads whole, or it fails.
FileUrlOpen(r) ==
    /\ files[r].pc = "urlopen"
    /\ \E answer \in {"chunked", "whole", "URLError"} :
          files' = [files EXCEPT
                      ![r].requests = @ + 1,
                      ![r].chunking = (answer # "whole"),
                      ![r].pc = IF answer = "URLError" THEN "cleanup" ELSE "open"]
    /\ UNCHANGED <<fs, inodes>>

\* open(self._tmp_path, "wb"): the file is created, or truncated if there is
\* one of that name; or the open fails.
FileOpenTmp(r) ==
    /\ files[r].pc = "open"
    /\ LET tmp == files[r].tmp_path[1]
       IN  \/ /\ fs[tmp] = 0
              /\ fs' = [fs EXCEPT ![tmp] = r]
              /\ inodes' = [inodes EXCEPT ![r] = <<>>]
              /\ files' = [files EXCEPT ![r].pc = "read", ![r].fd = r, ![r].pos = 0]
           \/ /\ fs[tmp] # 0
              /\ inodes' = [inodes EXCEPT ![fs[tmp]] = <<>>]
              /\ files' = [files EXCEPT ![r].pc = "read", ![r].fd = fs[tmp], ![r].pos = 0]
              /\ UNCHANGED fs
           \/ /\ files' = [files EXCEPT ![r].pc = "cleanup"]
              /\ UNCHANGED <<fs, inodes>>

\* Mutant: a loop that takes a second turn after a whole read.
FileReadWrite_SecondTurn(r) ==
    /\ files[r].pc = "read"
    /\ LET f == files[r]
           buffer == IF f.chunking
                     THEN IF f.pos < Len(Body) THEN <<Body[f.pos + 1]>> ELSE <<>>
                     ELSE Body
       IN  \/ /\ buffer = <<>>
              /\ files' = [files EXCEPT ![r].pc = "rename", ![r].fd = 0]
              /\ inodes' = Collect(fs, inodes, files')
           \/ /\ buffer # <<>>
              /\ files' = [files EXCEPT
                             ![r].pos = @ + Len(buffer),
                             ![r].wrote = @ \o buffer,
                             ![r].pc = IF f.chunking \/ f.pos = 0 THEN "read" ELSE "rename",
                             ![r].fd = IF f.chunking \/ f.pos = 0 THEN f.fd ELSE 0]
              /\ inodes' = Collect(fs, [inodes EXCEPT ![f.fd] = WriteAt(@, f.pos, buffer)],
                                   files')
           \/ /\ files' = [files EXCEPT ![r].pc = "cleanup", ![r].fd = 0]
              /\ inodes' = Collect(fs, inodes, files')
    /\ UNCHANGED fs

\* One turn of the loop: a block is read and written; an empty read ends the
\* loop, and so does the one whole read of a response that cannot read in
\* blocks. Leaving the with-blocks closes the file.
\* A written block is taken to reach the file when write() returns.
FileReadWrite(r) ==
    /\ files[r].pc = "read"
    /\ LET f == files[r]
           buffer == IF f.chunking
                     THEN IF f.pos < Len(Body) THEN <<Body[f.pos + 1]>> ELSE <<>>
                     ELSE Body
       IN  \/ /\ buffer = <<>>
              /\ files' = [files EXCEPT ![r].pc = "rename", ![r].fd = 0]
              /\ inodes' = Collect(fs, inodes, files')
           \/ /\ buffer # <<>>
              /\ files' = [files EXCEPT
                             ![r].pos = @ + Len(buffer),
                             ![r].wrote = @ \o buffer,
                             ![r].pc = IF f.chunking THEN "read" ELSE "rename",
                             ![r].fd = IF f.chunking THEN f.fd ELSE 0]
              /\ inodes' = Collect(fs, [inodes EXCEPT ![f.fd] = WriteAt(@, f.pos, buffer)],
                                   files')
           \/ /\ files' = [files EXCEPT ![r].pc = "cleanup", ![r].fd = 0]
              /\ inodes' = Collect(fs, inodes, files')
    /\ UNCHANGED fs

\* os.rename(self._tmp_path, cache_path), then the temporary path is forgotten
\* and the path set; the rename fails if the temporary file is not there.
FileRename(r) ==
    /\ files[r].pc = "rename"
    /\ LET tmp == files[r].tmp_path[1]
           cache_path == File_get_cache_path(files[r].uri[1])
       IN  IF fs[tmp] # 0
           THEN /\ fs' = [fs EXCEPT ![cache_path] = fs[tmp], ![tmp] = 0]
                /\ files' = [files EXCEPT ![r].pc = "done", ![r].tmp_path = <<>>,
                                          ![r].path = <<cache_path>>]
                /\ inodes' = Collect(fs', inodes, files')
           ELSE /\ files' = [files EXCEPT ![r].pc = "cleanup"]
                /\ UNCHANGED <<fs, inodes>>

\* The handler of the outer try: the temporary file is unlinked and the
\* error raised; _tmp_path stays set.
FileCleanup(r) ==
    /\ files[r].pc = "cleanup"
    /\ files' = [files EXCEPT ![r].pc = "failed"]
    /\ fs' = IF files[r].tmp_path # <<>> THEN Unlink(fs, files[r].tmp_path[1]) ELSE fs
    /\ inodes' = Collect(fs', inodes, files')

\* An exception that is not an Exception (KeyboardInterrupt, SystemExit, a
\* cancellation) raised inside the download: the with-blocks close the file,
\* "except Exception" does not handle it, and it propagates with the
\* temporary file left where it is and _tmp_path set.
FileInterrupt(r) ==
    /\ files[r].pc \in {"urlopen", "open", "read", "rename"}
    /\ files' = [files EXCEPT ![r].pc = "failed", ![r].fd = 0]
    /\ inodes' = Collect(fs, inodes, files')
    /\ UNCHANGED fs

\* __del__ of an instance whose construction failed.
FileDel(r) ==
    /\ files[r].pc = "failed"
    /\ files' = [files EXCEPT ![r].pc = "deleted"]
    /\ fs' = IF files[r].tmp_path # <<>> THEN Unlink(fs, files[r].tmp_path[1]) ELSE fs
    /\ inodes' = Collect(fs', inodes, files')

(***************************************************************************)
(* File.__init__ and the pydantic hooks (models/file.py).                  *)
(* A string used as a uri is the record urlparse() makes of it; a string   *)
(* used as a path is [segs, tail]: its segments (a leading "" for a        *)
(* leading slash) followed, for a path into the cache, by the name within  *)
(* the cache directory. A field of an object is <<>> (None) or <<value>>.  *)
(* A Python value is [t |-> its type, ...]; a dict is a function from its  *)
(* keys. The caller holds two references: f, the object it made first, and *)
(* g, the object it last derived from f.                                   *)
(***************************************************************************)
ObjIds == {"f", "g"}

FieldNames == {"uri", "path", "content_type", "size", "filename"}

\* os.getcwd()
Cwd == <<"", "work">>

\* Path.home() / ".cache" / "inferencesh" / "files"
DefaultCacheDir == <<"", "home", ".cache", "inferencesh", "files">>

\* The values FILE_CACHE_DIR is set to: a directory relative to os.getcwd().
EnvCacheDirs == {<<"cache">>}

File_get_cache_dir(e) == IF e # <<>> THEN e[1] ELSE DefaultCacheDir

\* A string without scheme, query and fragment, as urlparse() sees it.
LocalStr(segs) ==
    [scheme |-> "", netloc |-> "", path |-> segs, query |-> "", fragment |-> ""]

EmptyStr == LocalStr(<<>>)

LocalPath(segs) == [segs |-> segs, tail |-> <<>>]

EmptyPath == LocalPath(<<>>)

\* The path a string without scheme, query and fragment denotes.
StrPath(u) == LocalPath(u.path)

\* str(cache_path) for a URL.
CachePathStr(e, url) ==
    [segs |-> File_get_cache_dir(e), tail |-> <<File_get_cache_path(url)>>]

IsNotDot(seg) == seg # "."

\* Mutant: an abspath that leaves its argument as it is.
os_path_abspath_Identity(p) == p

\* os.path.abspath: a relative path is joined to os.getcwd(), "." segments
\* are dropped.
os_path_abspath(p) ==
    [p EXCEPT !.segs = SelectSeq(IF @ # <<>> /\ @[1] = "" THEN @ ELSE Cwd \o @, IsNotDot)]

\* The local files on disk outside the cache, and their sizes in bytes.
LocalFiles == { <<"", "work", "rel.txt">>, <<"", "data", "empty">> }

InitialDisk == (<<"", "work", "rel.txt">> :> 4) @@ (<<"", "data", "empty">> :> 0)

LocalSize(segs) == IF segs \in DOMAIN disk THEN disk[segs] ELSE 0

os_path_exists(p, dir, e) ==
    LET a == os_path_abspath(p)
    IN  IF a.tail = <<>>
        THEN a.segs \in LocalFiles
        ELSE /\ a.segs = os_path_abspath(LocalPath(File_get_cache_dir(e))).segs
             /\ dir[a.tail[1]] # 0

os_path_getsize(p, dir, ino) ==
    IF p.tail = <<>> THEN LocalSize(os_path_abspath(p).segs)
    ELSE Len(ino[dir[p.tail[1]]])

os_path_basename(p) == IF p.tail # <<>> THEN p.tail[1].name ELSE Basename(p.segs)

\* mimetypes.guess_type(name)[0]: by the extension, None without a known one.
mimetypes_guess_type(name) ==
    CASE name \in {"rel.txt", "a.txt"} -> <<"text/plain">>
      [] name \in {"missing.bin"} -> <<"application/octet-stream">>
      [] OTHER -> <<>>

\* Python truthiness of an optional value whose type has the falsy value zero.
PyFalsy(o, zero) == o = <<>> \/ o[1] = zero

\* a or b
PyOr(a, zero, b) == IF PyFalsy(a, zero) THEN b ELSE a

\* d.get(key, default)
dict_get(d, key, default) == IF key \in DOMAIN d THEN d[key] ELSE default

InvalidInput == [type |-> "ValueError", msg |-> "Invalid input for File"]

MissingLocation ==
    [type |-> "ValueError", msg |-> "Either 'uri' or 'path' must be provided"]

NoValidLocation ==
    [type |-> "ValueError",
     msg |-> "Either 'uri' or 'path' must be provided and be valid"]

UnexpectedKeyword == [type |-> "TypeError", msg |-> "unexpected keyword argument"]

DownloadFailed(url, cause) ==
    [type |-> "RuntimeError", msg |-> "Error downloading URL", url |-> url,
     cause |-> cause]

\* What Path.mkdir raises when the cache directory cannot be made.
CacheDirFailed == [type |-> "OSError", msg |-> "mkdir"]

\* No keyword argument given.
NoKw ==
    [uri |-> <<>>, path |-> <<>>, content_type |-> <<>>, size |-> <<>>,
     filename |-> <<>>]

\* How a construction or coercion ends: with a new object, with the object it
\* was given, or with an error; together with the cache directory it leaves
\* and the number of network requests it sent.
Built(o, dir, ino, n) ==
    [kind |-> "new", val |-> o, fs |-> dir, inodes |-> ino, requests |-> n]

Same(id, dir, ino) ==
    [kind |-> "same", val |-> id, fs |-> dir, inodes |-> ino, requests |-> 0]

Raised(err, dir, ino, n) ==
    [kind |-> "raise", val |-> err, fs |-> dir, inodes |-> ino, requests |-> n]

\* What the network and the local disk do to a download.
Nets == {"ok", "URLError", "IOError", "mkdir"}

\* _download_url run alone, from its call to its return: a cached file is
\* reused; otherwise the directory of the cache path is made, outside the
\* try, the body is fetched, written to the temporary file and renamed to
\* the cache path, or the download fails, the temporary file, if it was
\* created, is unlinked and the error raised as a RuntimeError.
File_download_url(url, dir, ino, net) ==
    LET cache_path == File_get_cache_path(url)
        free == CHOOSE i \in Resolvers : \A n \in Names : dir[n] # i
    IN  IF dir[cache_path] # 0
        THEN [kind |-> "return", fs |-> dir, inodes |-> ino, requests |-> 0]
        ELSE IF net = "mkdir"
        THEN [kind |-> "raise", err |-> CacheDirFailed,
              fs |-> dir, inodes |-> ino, requests |-> 0]
        ELSE IF net = "ok"
        THEN [kind |-> "return", fs |-> [dir EXCEPT ![cache_path] = free],
              inodes |-> [ino EXCEPT ![free] = Body], requests |-> 1]
        ELSE [kind |-> "raise", err |-> DownloadFailed(url, net),
              fs |-> dir, inodes |-> ino, requests |-> 1]

\* The arguments after the positional initializer has been taken in.
File_init_args(initializer, kw, heap) ==
    IF initializer = <<>> THEN kw
    ELSE IF initializer[1].t = "str" THEN [kw EXCEPT !.uri = <<initializer[1].v>>]
    ELSE IF initializer[1].t = "File"
    THEN LET src == heap[initializer[1].id][1]
         IN  [uri |-> src.uri,
              path |-> src.path,
              content_type |-> PyOr(kw.content_type, "", src.content_type),
              size |-> PyOr(kw.size, 0, src.size),
              filename |-> PyOr(kw.filename, "", src.filename)]
    ELSE LET d == initializer[1].d
         IN  [uri |-> dict_get(d, "uri", kw.uri),
              path |-> dict_get(d, "path", kw.path),
              content_type |-> dict_get(d, "content_type", kw.content_type),
              size |-> dict_get(d, "size", kw.size),
              filename |-> dict_get(d, "filename", kw.filename)]

\* Mutant: metadata filled in without looking whether the file exists.
File_populate_metadata_NoExistsCheck(o, dir, ino, e) ==
    IF ~PyFalsy(o.path, EmptyPath)
    THEN [o EXCEPT
            !.content_type = IF PyFalsy(@, "")
                             THEN mimetypes_guess_type(os_path_basename(o.path[1]))
                             ELSE @,
            !.size = IF PyFalsy(@, 0) THEN <<os_path_getsize(o.path[1], dir, ino)>> ELSE @,
            !.filename = IF PyFalsy(@, "") THEN <<os_path_basename(o.path[1])>> ELSE @]
    ELSE o

File_populate_metadata(o, dir, ino, e) ==
    IF ~PyFalsy(o.path, EmptyPath) /\ os_path_exists(o.path[1], dir, e)
    THEN [o EXCEPT
            !.content_type = IF PyFalsy(@, "")
                             THEN mimetypes_guess_type(os_path_basename(o.path[1]))
                             ELSE @,
            !.size = IF PyFalsy(@, 0) THEN <<os_path_getsize(o.path[1], dir, ino)>> ELSE @,
            !.filename = IF PyFalsy(@, "") THEN <<os_path_basename(o.path[1])>> ELSE @]
    ELSE o

\* __init__ from "Resolve" on: a URL is downloaded, a local uri made
\* absolute, the path made absolute and the metadata filled in.
File_init_materialize(a, dir, ino, e, net) ==
    LET local == PyFalsy(a.uri, EmptyStr)
        remote == ~local /\ File_is_url(a.uri[1])
        dl == IF remote THEN File_download_url(a.uri[1], dir, ino, net)
              ELSE [kind |-> "return", fs |-> dir, inodes |-> ino, requests |-> 0]
        resolved == IF local THEN a.path
                    ELSE IF remote THEN <<CachePathStr(e, a.uri[1])>>
                    ELSE <<os_path_abspath(StrPath(a.uri[1]))>>
    IN  IF dl.kind = "raise"
        THEN Raised(dl.err, dl.fs, dl.inodes, dl.requests)
        ELSE IF PyFalsy(resolved, EmptyPath)
        THEN Raised(NoValidLocation, dl.fs, dl.inodes, dl.requests)
        ELSE Built(File_populate_metadata(
                       [uri |-> a.uri, path |-> <<os_path_abspath(resolved[1])>>,
                        content_type |-> a.content_type, size |-> a.size,
                        filename |-> a.filename, tmp_path |-> <<>>],
                       dl.fs, dl.inodes, e),
                   dl.fs, dl.inodes, dl.requests)

\* __init__ once the arguments are merged: the check for a location, then
\* the resolution.
File_init_resolve(a, dir, ino, e, net) ==
    IF PyFalsy(a.uri, EmptyStr) /\ PyFalsy(a.path, EmptyPath)
    THEN Raised(MissingLocation, dir, ino, 0)
    ELSE File_init_materialize(a, dir, ino, e, net)

\* Mutant: an initializer of an unsupported type is ignored.
File_init_AnyInitializer(initializer, kw, heap, dir, ino, e, net) ==
    File_init_resolve(
        File_init_args(IF initializer # <<>> /\ initializer[1].t \notin {"str", "File", "dict"}
                       THEN <<>> ELSE initializer, kw, heap),
        dir, ino, e, net)

\* File(initializer, uri=..., path=..., content_type=..., size=..., filename=...)
File_init(initializer, kw, heap, dir, ino, e, net) ==
    IF initializer # <<>> /\ initializer[1].t \notin {"str", "File", "dict"}
    THEN Raised(InvalidInput, dir, ino, 0)
    ELSE File_init_resolve(File_init_args(initializer, kw, heap), dir, ino, e, net)

\* Mutant: a refresh that fills in only what is not set.
File_refresh_metadata_KeepSet(o, dir, ino, e) == File_populate_metadata(o, dir, ino, e)

\* refresh_metadata(): the three fields are computed anew from the file, if
\* there is one.
File_refresh_metadata(o, dir, ino, e) ==
    IF ~PyFalsy(o.path, EmptyPath) /\ os_path_exists(o.path[1], dir, e)
    THEN [o EXCEPT
            !.content_type = mimetypes_guess_type(os_path_basename(o.path[1])),
            !.size = <<os_path_getsize(o.path[1], dir, ino)>>,
            !.filename = <<os_path_basename(o.path[1])>>]
    ELSE o

\* Mutant: a serializer that emits the uri and the path only.
File_pydantic_serialize_LocationOnly(o) ==
    [k \in {n \in {"uri", "path"} : o[n] # <<>>} |-> o[k]]

\* The dict _pydantic_serialize makes of an object: the fields that are set.
File_pydantic_serialize(o) == [k \in {n \in FieldNames : o[n] # <<>>} |-> o[k]]

\* The keyword arguments of cls(**d).
KwOf(d) == [k \in FieldNames |-> IF k \in DOMAIN d THEN d[k] ELSE <<>>]

\* Mutant: a validator that copies an instance it is given.
File_pydantic_validate_Copy(v, heap, dir, ino, e, net) ==
    IF v.t \in {"File", "str"} THEN File_init(<<v>>, NoKw, heap, dir, ino, e, net)
    ELSE IF v.t = "dict"
    THEN IF DOMAIN v.d \subseteq FieldNames
         THEN File_init(<<>>, KwOf(v.d), heap, dir, ino, e, net)
         ELSE Raised(UnexpectedKeyword, dir, ino, 0)
    ELSE Raised(InvalidInput, dir, ino, 0)

\* _pydantic_validate(v); cls(**v) takes no keyword but the parameters of
\* __init__.
File_pydantic_validate(v, heap, dir, ino, e, net) ==
    IF v.t = "File" THEN Same(v.id, dir, ino)
    ELSE IF v.t = "str" THEN File_init(<<v>>, NoKw, heap, dir, ino, e, net)
    ELSE IF v.t = "dict"
    THEN IF DOMAIN v.d \subseteq FieldNames
         THEN File_init(<<>>, KwOf(v.d), heap, dir, ino, e, net)
         ELSE Raised(UnexpectedKeyword, dir, ino, 0)
    ELSE Raised(InvalidInput, dir, ino, 0)

\* Nothing has been constructed or coerced yet.
NoCall == [op |-> "none"]

\* The strings, paths and keyword arguments the caller passes.
RelStr == LocalStr(<<".", "rel.txt">>)

MissingStr == LocalStr(<<"", "data", "missing.bin">>)

RemoteStr ==
    [scheme |-> "https", netloc |-> "example.com", path |-> <<"files", "a.txt">>,
     query |-> "", fragment |-> ""]

Strs == {EmptyStr, RelStr, MissingStr, RemoteStr}

Paths == {EmptyPath, LocalPath(<<"rel.txt">>), LocalPath(<<"", "data", "empty">>)}

Opt(S) == {<<>>} \cup {<<x>> : x \in S}

Metas ==
    { [content_type |-> <<>>, size |-> <<>>, filename |-> <<>>],
      [content_type |-> <<"">>, size |-> <<0>>, filename |-> <<"">>],
      [content_type |-> <<"application/json">>, size |-> <<7>>, filename |-> <<"n.json">>] }

\* Every pair of uri and path without metadata, and the pairs that lead to an
\* existing file, to a missing file and into the cache with each metadata.
KwArgs ==
    { [NoKw EXCEPT !.uri = u, !.path = p] : u \in Opt(Strs), p \in Opt(Paths) }
        \cup { [uri |-> l[1], path |-> l[2], content_type |-> m.content_type,
                size |-> m.size, filename |-> m.filename] :
                  l \in { <<<<RelStr>>, <<>>>>, <<<<MissingStr>>, <<>>>>,
                          <<<<RemoteStr>>, <<>>>>,
                          <<<<>>, <<LocalPath(<<"", "data", "empty">>)>>>> },
                  m \in Metas }

\* The keyword arguments passed along with a positional initializer that is
\* an object, the empty dict or a string.
KwOver ==
    { NoKw,
      [NoKw EXCEPT !.uri = <<MissingStr>>, !.size = <<7>>],
      [NoKw EXCEPT !.path = <<LocalPath(<<"rel.txt">>)>>,
                   !.content_type = <<"application/json">>, !.filename = <<"">>] }

Dicts ==
    { <<>>,
      "uri" :> <<RelStr>>,
      "path" :> <<LocalPath(<<"rel.txt">>)>> @@ "size" :> <<0>>,
      "uri" :> <<>> @@ "path" :> <<LocalPath(<<"", "data", "empty">>)>>,
      "uri" :> <<RemoteStr>> @@ "content_type" :> <<"application/json">>,
      "uri" :> <<RelStr>> @@ "extra" :> <<1>> }

\* The objects the caller holds.
Live(heap) == {id \in ObjIds : heap[id] # <<>>}

\* The values passed as a positional initializer or to a File field.
PyValues(heap) ==
    {[t |-> "str", v |-> u] : u \in Strs}
        \cup {[t |-> "dict", d |-> d] : d \in Dicts}
        \cup {[t |-> "File", id |-> id] : id \in Live(heap) \cap {"f"}}
        \cup {[t |-> "int", n |-> 123]}

(***************************************************************************)
(* The JSON schema of a record class with File fields. The class is a      *)
(* pydantic model; pydantic turns each annotation into a core schema,      *)
(* asking File through __get_pydantic_core_schema__, and renders the core  *)
(* schemas as JSON schema: a schema with a ref goes to "$defs" and is      *)
(* referenced, any other is rendered in place. Titles and defaults of the  *)
(* fields are left out.                                                    *)
(***************************************************************************)
\* The annotations a field is declared with.
Annotations ==
    { [k |-> "File"], [k |-> "str"], [k |-> "model", name |-> "OutputMeta"],
      [k |-> "Optional", of |-> [k |-> "File"]],
      [k |-> "List", of |-> [k |-> "File"]],
      [k |-> "Optional", of |-> [k |-> "List", of |-> [k |-> "File"]]] }

\* Mutant: a hook without the JSON schema function.
File_get_pydantic_core_schema_NoJsFunction ==
    [type |-> "function-plain", js |-> <<>>]

\* File.__get_pydantic_core_schema__: a plain validator function, without a
\* ref, whose JSON schema function returns this dict whatever it is given.
File_get_pydantic_core_schema ==
    [type |-> "function-plain", js |-> <<[type |-> "string", format |-> "file"]>>]

RECURSIVE pydantic_core_schema(_)
pydantic_core_schema(t) ==
    CASE t.k = "File" -> File_get_pydantic_core_schema
      [] t.k = "str" -> [type |-> "str"]
      [] t.k = "model" -> [type |-> "model", ref |-> t.name]
      [] t.k = "Optional" -> [type |-> "nullable", schema |-> pydantic_core_schema(t.of)]
      [] t.k = "List" -> [type |-> "list", items |-> pydantic_core_schema(t.of)]

RECURSIVE pydantic_json_schema(_)
pydantic_json_schema(core) ==
    CASE core.type = "function-plain" ->
           IF core.js # <<>> THEN core.js[1] ELSE [invalid |-> "function-plain"]
      [] core.type = "str" -> [type |-> "string"]
      [] core.type = "model" -> [ref |-> <<"$defs", core.ref>>]
      [] core.type = "nullable" ->
           [anyOf |-> <<pydantic_json_schema(core.schema), [type |-> "null"]>>]
      [] core.type = "list" ->
           [type |-> "array", items |-> pydantic_json_schema(core.items)]

\* The names that go to "$defs" for a core schema.
RECURSIVE pydantic_defs(_)
pydantic_defs(core) ==
    CASE core.type = "model" -> {core.ref}
      [] core.type = "nullable" -> pydantic_defs(core.schema)
      [] core.type = "list" -> pydantic_defs(core.items)
      [] OTHER -> {}

\* TestOutput.model_json_schema() for a class with the fields d.
model_json_schema(d) ==
    [properties |-> [i \in DOMAIN d |-> pydantic_json_schema(pydantic_core_schema(d[i]))],
     defs |-> UNION {pydantic_defs(pydantic_core_schema(d[i])) : i \in DOMAIN d}]

(***************************************************************************)
(* MetaItem and OutputMeta (models/output_meta.py): pydantic models. A     *)
(* field declared "type: str = default" takes the default when the caller  *)
(* gives none and any string the caller gives.                             *)
(***************************************************************************)
\* The variants of MetaItemUnion.
MetaClasses == {"TextMeta", "ImageMeta", "VideoMeta", "AudioMeta", "RawMeta"}

\* MetaItemType.X.value, the default of the field type of each variant.
MetaItemType(cls) ==
    CASE cls = "TextMeta" -> "text"
      [] cls = "ImageMeta" -> "image"
      [] cls = "VideoMeta" -> "video"
      [] cls = "AudioMeta" -> "audio"
      [] cls = "RawMeta" -> "raw"

\* cls(type=t) or, with t = <<>>, cls().
MetaItem_init(cls, t) ==
    [cls |-> cls, type |-> IF t = <<>> THEN MetaItemType(cls) ELSE t[1]]

\* OutputMeta(inputs=ins, outputs=outs): the lists are kept as given.
OutputMeta_init(ins, outs) == [inputs |-> ins, outputs |-> outs]

\* The values a caller passes as type.
TypeArgs == {<<>>, <<"text">>, <<"image">>}

(***************************************************************************)
(* Coroutines on one AsyncSessionHandle. A coroutine runs without          *)
(* interruption from one await to the next; while it awaits the transport, *)
(* the event loop runs the others.                                         *)
(***************************************************************************)
Tasks == 1..MaxTasks

\* A coroutine that has not been started.
IdleTask == [op |-> "none", pc |-> "idle", out |-> <<>>]

(***************************************************************************)
(* SessionsAPI (blocking)                                                  *)
(***************************************************************************)
\* Mutant: get() that sends the request a second time when it raised.
SessionsAPI_get_Retry(session_id, resp) ==
    LET r == Client_request("get", <<"sessions", session_id>>, resp)
    IN  [sent |-> IF r.out.kind = "raise" THEN r.sent \o r.sent ELSE r.sent,
         out |-> r.out]

SessionsAPI_get(session_id, resp) ==
    Client_request("get", <<"sessions", session_id>>, resp)

\* Mutant: list() that returns what the transport returned, nothing included.
SessionsAPI_list_Raw(resp) == Client_request("get", <<"sessions">>, resp)

SessionsAPI_list(resp) ==
    LET r == Client_request("get", <<"sessions">>, resp)
    IN  [sent |-> r.sent,
         out |-> IF r.out.kind = "return" /\ Falsy(r.out.val) THEN Ret("[]") ELSE r.out]

SessionsAPI_keepalive(session_id, resp) ==
    Client_request("post", <<"sessions", session_id, "keepalive">>, resp)

\* Mutant: end() that posts to the keepalive endpoint.
SessionsAPI_end_Keepalive(session_id, resp) ==
    LET r == Client_request("post", <<"sessions", session_id, "keepalive">>, resp)
    IN  [sent |-> r.sent,
         out |-> IF r.out.kind = "return" THEN Ret(None) ELSE r.out]

SessionsAPI_end(session_id, resp) ==
    LET r == Client_request("delete", <<"sessions", session_id>>, resp)
    IN  [sent |-> r.sent,
         out |-> IF r.out.kind = "return" THEN Ret(None) ELSE r.out]

(***************************************************************************)
(* AsyncSessionsAPI (suspending)                                           *)
(***************************************************************************)
AsyncSessionsAPI_get(session_id, resp) ==
    Client_request("get", <<"sessions", session_id>>, resp)

AsyncSessionsAPI_list(resp) ==
    LET r == Client_request("get", <<"sessions">>, resp)
    IN  [sent |-> r.sent,
         out |-> IF r.out.kind = "return" /\ Falsy(r.out.val) THEN Ret("[]") ELSE r.out]

AsyncSessionsAPI_keepalive(session_id, resp) ==
    Client_request("post", <<"sessions", session_id, "keepalive">>, resp)

AsyncSessionsAPI_end(session_id, resp) ==
    LET r == Client_request("delete", <<"sessions", session_id>>, resp)
    IN  [sent |-> r.sent,
         out |-> IF r.out.kind = "return" THEN Ret(None) ELSE r.out]

(***************************************************************************)
(* SessionHandle (blocking). Every operation maps the handle state, the    *)
(* caller's arguments and the remote answer to the new handle state, the   *)
(* exchanges it made and its outcome.                                      *)
(***************************************************************************)
SessionAlreadyEnded == Raise("RuntimeError: Session has been ended")

SessionHandle_init(app, session_id) ==
    [app |-> app, session_id |-> session_id, ended |-> FALSE]

\* Mutant: call() without the check of the ended flag.
SessionHandle_call_Unchecked(hs, function, input, resp) ==
    LET r == Client_run(
               [app |-> hs.app,
                function |-> IF function = <<>> THEN "run" ELSE function[1],
                input |-> IF input = <<>> \/ input[1] = {} THEN {} ELSE input[1],
                session |-> hs.session_id],
               resp)
    IN  [h |-> hs, sent |-> r.sent, out |-> r.out]

\* Mutant: call() that asks for a new session instead of the pinned one.
SessionHandle_call_Unpinned(hs, function, input, resp) ==
    IF hs.ended
    THEN [h |-> hs, sent |-> <<>>, out |-> SessionAlreadyEnded]
    ELSE LET r == Client_run(
                    [app |-> hs.app,
                     function |-> IF function = <<>> THEN "run" ELSE function[1],
                     input |-> IF input = <<>> \/ input[1] = {} THEN {} ELSE input[1],
                     session |-> "new"],
                    resp)
         IN  [h |-> hs, sent |-> r.sent, out |-> r.out]

\* function defaults to "run" when omitted; input is `input or {}`.
SessionHandle_call(hs, function, input, resp) ==
    IF hs.ended
    THEN [h |-> hs, sent |-> <<>>, out |-> SessionAlreadyEnded]
    ELSE LET r == Client_run(
                    [app |-> hs.app,
                     function |-> IF function = <<>> THEN "run" ELSE function[1],
                     input |-> IF input = <<>> \/ input[1] = {} THEN {} ELSE input[1],
                     session |-> hs.session_id],
                    resp)
         IN  [h |-> hs, sent |-> r.sent, out |-> r.out]

SessionHandle_info(hs, resp) ==
    LET r == SessionsAPI_get(hs.session_id, resp)
    IN  [h |-> hs, sent |-> r.sent, out |-> r.out]

\* Mutant: keepalive() that refuses an ended handle, as call() does.
SessionHandle_keepalive_Guarded(hs, resp) ==
    IF hs.ended
    THEN [h |-> hs, sent |-> <<>>, out |-> SessionAlreadyEnded]
    ELSE LET r == SessionsAPI_keepalive(hs.session_id, resp)
         IN  [h |-> hs, sent |-> r.sent, out |-> r.out]

SessionHandle_keepalive(hs, resp) ==
    LET r == SessionsAPI_keepalive(hs.session_id, resp)
    IN  [h |-> hs, sent |-> r.sent, out |-> r.out]

\* Mutant: end() that sets the ended flag whatever the remote end did.
SessionHandle_end_FlagFirst(hs, resp) ==
    IF ~hs.ended
    THEN LET r == SessionsAPI_end(hs.session_id, resp)
         IN  [h |-> [hs EXCEPT !.ended = TRUE], sent |-> r.sent,
              out |-> IF r.out.kind = "raise" THEN r.out ELSE Ret(None)]
    ELSE [h |-> hs, sent |-> <<>>, out |-> Ret(None)]

\* Mutant: end() without the check of the ended flag.
SessionHandle_end_NoGuard(hs, resp) ==
    LET r == SessionsAPI_end(hs.session_id, resp)
    IN  IF r.out.kind = "raise"
        THEN [h |-> hs, sent |-> r.sent, out |-> r.out]
        ELSE [h |-> [hs EXCEPT !.ended = TRUE], sent |-> r.sent, out |-> Ret(None)]

\* Mutant: end() that never sets the ended flag.
SessionHandle_end_FlagNever(hs, resp) ==
    IF ~hs.ended
    THEN LET r == SessionsAPI_end(hs.session_id, resp)
         IN  IF r.out.kind = "raise"
             THEN [h |-> hs, sent |-> r.sent, out |-> r.out]
             ELSE [h |-> hs, sent |-> r.sent, out |-> Ret(None)]
    ELSE [h |-> hs, sent |-> <<>>, out |-> Ret(None)]

\* The flag is set only after sessions.end() has returned.
SessionHandle_end(hs, resp) ==
    IF ~hs.ended
    THEN LET r == SessionsAPI_end(hs.session_id, resp)
         IN  IF r.out.kind = "raise"
             THEN [h |-> hs, sent |-> r.sent, out |-> r.out]
             ELSE [h |-> [hs EXCEPT !.ended = TRUE], sent |-> r.sent, out |-> Ret(None)]
    ELSE [h |-> hs, sent |-> <<>>, out |-> Ret(None)]

SessionHandle_enter(hs) == [h |-> hs, sent |-> <<>>, out |-> Ret("self")]

\* Mutant: a scope exit that keeps the error of end() to itself.
SessionHandle_exit_Swallow(hs, resp) ==
    LET r == SessionHandle_end(hs, resp)
    IN  [h |-> r.h, sent |-> r.sent, out |-> Ret(None)]

\* Mutant: a scope exit that does not end the session.
SessionHandle_exit_NoEnd(hs, resp) == [h |-> hs, sent |-> <<>>, out |-> Ret(None)]

SessionHandle_exit(hs, resp) == SessionHandle_end(hs, resp)

(***************************************************************************)
(* AsyncSessionHandle (suspending), each operation awaited to completion.  *)
(***************************************************************************)
AsyncSessionHandle_init(app, session_id) ==
    [app |-> app, session_id |-> session_id, ended |-> FALSE]

AsyncSessionHandle_call(hs, function, input, resp) ==
    IF hs.ended
    THEN [h |-> hs, sent |-> <<>>, out |-> SessionAlreadyEnded]
    ELSE LET r == Client_run(
                    [app |-> hs.app,
                     function |-> IF function = <<>> THEN "run" ELSE function[1],
                     input |-> IF input = <<>> \/ input[1] = {} THEN {} ELSE input[1],
                     session |-> hs.session_id],
                    resp)
         IN  [h |-> hs, sent |-> r.sent, out |-> r.out]

AsyncSessionHandle_info(hs, resp) ==
    LET r == AsyncSessionsAPI_get(hs.session_id, resp)
    IN  [h |-> hs, sent |-> r.sent, out |-> r.out]

AsyncSessionHandle_keepalive(hs, resp) ==
    LET r == AsyncSessionsAPI_keepalive(hs.session_id, resp)
    IN  [h |-> hs, sent |-> r.sent, out |-> r.out]

\* Mutant: end() that sets the ended flag before awaiting the remote end.
AsyncSessionHandle_end_FlagFirst(hs, resp) ==
    IF ~hs.ended
    THEN LET r == AsyncSessionsAPI_end(hs.session_id, resp)
         IN  [h |-> [hs EXCEPT !.ended = TRUE], sent |-> r.sent,
              out |-> IF r.out.kind = "raise" THEN r.out ELSE Ret(None)]
    ELSE [h |-> hs, sent |-> <<>>, out |-> Ret(None)]

AsyncSessionHandle_end(hs, resp) ==
    IF ~hs.ended
    THEN LET r == AsyncSessionsAPI_end(hs.session_id, resp)
         IN  IF r.out.kind = "raise"
             THEN [h |-> hs, sent |-> r.sent, out |-> r.out]
             ELSE [h |-> [hs EXCEPT !.ended = TRUE], sent |-> r.sent, out |-> Ret(None)]
    ELSE [h |-> hs, sent |-> <<>>, out |-> Ret(None)]

AsyncSessionHandle_aenter(hs) == [h |-> hs, sent |-> <<>>, out |-> Ret("self")]

AsyncSessionHandle_aexit(hs, resp) == AsyncSessionHandle_end(hs, resp)

(***************************************************************************)
(* The caller: one sequence of operations, applied to the blocking and to  *)
(* the suspending variant with the same remote answers.                    *)
(***************************************************************************)
\* The exchanges of operation number n, tagged with the operation.
Tagged(sent, n, op) ==
    [i \in DOMAIN sent |-> [n |-> n, op |-> op, req |-> sent[i].req, resp |-> sent[i].resp]]

\* The blocking side performs s, the suspending side a, as operation op.
Perform(op, s, a) ==
    /\ nops < MaxOps
    /\ nops' = nops + 1
    /\ lastOp' = op
    /\ log' = log \o Tagged(s.sent, nops + 1, op.name)
    /\ alog' = alog \o Tagged(a.sent, nops + 1, op.name)
    /\ res' = s.out
    /\ ares' = a.out
    /\ UNCHANGED <<evars, fvars, cvars, jvars, mvars, co>>

HandleUsable == scope \in {"plain", "in", "exited"}

Init ==
    /\ \E app \in Apps, sid \in HandleSessions :
          /\ ctor = [app |-> app, session_id |-> sid]
          /\ h = SessionHandle_init(app, sid)
          /\ ah = AsyncSessionHandle_init(app, sid)
    /\ log = <<>>
    /\ alog = <<>>
    /\ res = Ret(None)
    /\ ares = Ret(None)
    /\ scope \in {"plain", "none"}
    /\ lastOp = [name |-> "init"]
    /\ nops = 0
    /\ engine = Engine_init
    /\ fs = [n \in Names |-> 0]
    /\ inodes = [i \in Resolvers |-> <<>>]
    /\ files = [r \in Resolvers |-> NoFile]
    /\ env = <<>>
    /\ objs = [id \in ObjIds |-> <<>>]
    /\ cres = NoCall
    /\ disk = InitialDisk
    /\ decl = <<>>
    /\ schema = <<>>
    /\ made = <<>>
    /\ meta = <<>>
    /\ co = [h |-> AsyncSessionHandle_init(ctor.app, ctor.session_id),
             tasks |-> [t \in Tasks |-> IdleTask],
             sent |-> <<>>]

Enter ==
    /\ scope = "none"
    /\ scope' = "in"
    /\ lastOp' = [name |-> "enter"]
    /\ h' = SessionHandle_enter(h).h
    /\ ah' = AsyncSessionHandle_aenter(ah).h
    /\ res' = SessionHandle_enter(h).out
    /\ ares' = AsyncSessionHandle_aenter(ah).out
    /\ UNCHANGED <<ctor, log, alog, nops, evars, fvars, cvars, jvars, mvars, co>>

Call ==
    /\ HandleUsable
    /\ \E args \in CallArgs, resp \in RunResponses :
          LET s == SessionHandle_call(h, args[1], args[2], resp)
              a == AsyncSessionHandle_call(ah, args[1], args[2], resp)
          IN  /\ Perform([name |-> "call", function |-> args[1], input |-> args[2]], s, a)
              /\ h' = s.h
              /\ ah' = a.h
    /\ UNCHANGED <<ctor, scope>>

Info ==
    /\ HandleUsable
    /\ \E resp \in RequestResponses :
          LET s == SessionHandle_info(h, resp)
              a == AsyncSessionHandle_info(ah, resp)
          IN  /\ Perform([name |-> "info"], s, a)
              /\ h' = s.h
              /\ ah' = a.h
    /\ UNCHANGED <<ctor, scope>>

Keepalive ==
    /\ HandleUsable
    /\ \E resp \in RequestResponses :
          LET s == SessionHandle_keepalive(h, resp)
              a == AsyncSessionHandle_keepalive(ah, resp)
          IN  /\ Perform([name |-> "keepalive"], s, a)
              /\ h' = s.h
              /\ ah' = a.h
    /\ UNCHANGED <<ctor, scope>>

End ==
    /\ HandleUsable
    /\ \E resp \in RequestResponses :
          LET s == SessionHandle_end(h, resp)
              a == AsyncSessionHandle_end(ah, resp)
          IN  /\ Perform([name |-> "end"], s, a)
              /\ h' = s.h
              /\ ah' = a.h
    /\ UNCHANGED <<ctor, scope>>

\* The with-block is left, normally or by an error raised inside it.
Exit ==
    /\ scope = "in"
    /\ scope' = "exited"
    /\ \E resp \in RequestResponses, propagating \in BOOLEAN :
          LET s == SessionHandle_exit(h, resp)
              a == AsyncSessionHandle_aexit(ah, resp)
          IN  /\ propagating => res.kind = "raise"
              /\ Perform([name |-> "exit", propagating |-> propagating], s, a)
              /\ h' = s.h
              /\ ah' = a.h
    /\ UNCHANGED ctor

ApiGet ==
    /\ \E sid \in ApiSessions, resp \in RequestResponses :
          Perform([name |-> "sessions.get", session_id |-> sid],
                  SessionsAPI_get(sid, resp), AsyncSessionsAPI_get(sid, resp))
    /\ UNCHANGED <<ctor, h, ah, scope>>

ApiList ==
    /\ \E resp \in ListResponses :
          Perform([name |-> "sessions.list"],
                  SessionsAPI_list(resp), AsyncSessionsAPI_list(resp))
    /\ UNCHANGED <<ctor, h, ah, scope>>

ApiKeepalive ==
    /\ \E sid \in ApiSessions, resp \in RequestResponses :
          Perform([name |-> "sessions.keepalive", session_id |-> sid],
                  SessionsAPI_keepalive(sid, resp), AsyncSessionsAPI_keepalive(sid, resp))
    /\ UNCHANGED <<ctor, h, ah, scope>>

ApiEnd ==
    /\ \E sid \in ApiSessions, resp \in RequestResponses :
          Perform([name |-> "sessions.end", session_id |-> sid],
                  SessionsAPI_end(sid, resp), AsyncSessionsAPI_end(sid, resp))
    /\ UNCHANGED <<ctor, h, ah, scope>>

Next ==
    \/ Enter
    \/ Call
    \/ Info
    \/ Keepalive
    \/ End
    \/ Exit
    \/ ApiGet
    \/ ApiList
    \/ ApiKeepalive
    \/ ApiEnd

Spec == Init /\ [][Next]_vars

(***************************************************************************)
(* The blocking client against the execution engine                        *)
(***************************************************************************)
\* The (function, input) invocations of the session test app.
EngineCalls ==
    { <<"set_value", {<<"key", k>>, <<"value", v>>}>> : k \in Keys, v \in Values }
        \cup { <<"get_value", {<<"key", k>>}>> : k \in Keys }

\* The engine's answer to the one request of an operation (sent), if it
\* makes one; the request an operation makes does not depend on the answer.
EngineAnswer(sent, delivered) ==
    IF sent = <<>>
    THEN [eng |-> engine, resp |-> Ret(None)]
    ELSE Engine_serve(engine, sent[1].req, delivered)

EPerform(op, s, eng) ==
    /\ nops < MaxOps
    /\ nops' = nops + 1
    /\ lastOp' = op
    /\ log' = log \o Tagged(s.sent, nops + 1, op.name)
    /\ res' = s.out
    /\ engine' = eng
    /\ UNCHANGED <<ctor, ah, alog, ares, scope, fvars, cvars, jvars, mvars, co>>

EInit == Init /\ scope = "plain"

\* client.run(params) called directly, with session "new" or a concrete id.
ERun ==
    /\ \E c \in EngineCalls, sid \in {"new"} \cup SessionIds :
          /\ sid = "new" => Engine_freeIds(engine) # {}
          /\ LET params == [app |-> ctor.app, function |-> c[1], input |-> c[2],
                             session |-> sid]
                 e == EngineAnswer(Client_run(params, Ret(None)).sent, TRUE)
             IN  EPerform([name |-> "run", function |-> c[1], input |-> c[2],
                           session |-> sid], Client_run(params, e.resp), e.eng)
    /\ h' = h

ECall ==
    \E c \in EngineCalls :
        /\ (h.session_id = "new" /\ ~h.ended) => Engine_freeIds(engine) # {}
        /\ LET e == EngineAnswer(
                        SessionHandle_call(h, <<c[1]>>, <<c[2]>>, Ret(None)).sent, TRUE)
               s == SessionHandle_call(h, <<c[1]>>, <<c[2]>>, e.resp)
           IN  /\ EPerform([name |-> "call", function |-> <<c[1]>>, input |-> <<c[2]>>],
                           s, e.eng)
               /\ h' = s.h

EEnd ==
    \E delivered \in BOOLEAN :
        LET e == EngineAnswer(SessionHandle_end(h, Ret(None)).sent, delivered)
            s == SessionHandle_end(h, e.resp)
        IN  /\ EPerform([name |-> "end"], s, e.eng)
            /\ h' = s.h

EApiEnd ==
    /\ \E sid \in SessionIds, delivered \in BOOLEAN :
          LET e == EngineAnswer(SessionsAPI_end(sid, Ret(None)).sent, delivered)
          IN  EPerform([name |-> "sessions.end", session_id |-> sid],
                       SessionsAPI_end(sid, e.resp), e.eng)
    /\ h' = h

\* The remote platform expires an active session for inactivity.
EExpire ==
    /\ \E sid \in SessionIds :
          /\ engine[sid].status = "active"
          /\ engine' = [engine EXCEPT ![sid].status = "expired"]
    /\ UNCHANGED <<svars, fvars, cvars, jvars, mvars, co>>

ENext ==
    \/ ERun
    \/ ECall
    \/ EEnd
    \/ EApiEnd
    \/ EExpire

SpecEngine == EInit /\ [][ENext]_vars

(***************************************************************************)
(* Resolvers of remote URLs, running concurrently on one cache directory   *)
(***************************************************************************)
FInit == Init /\ scope = "plain" /\ ctor.session_id = "new"

New == (\E r \in Resolvers : FileNew(r)) /\ UNCHANGED <<svars, evars, cvars, jvars, mvars, co>>

Start == (\E r \in Resolvers : FileStart(r)) /\ UNCHANGED <<svars, evars, cvars, jvars, mvars, co>>

UrlOpen == (\E r \in Resolvers : FileUrlOpen(r)) /\ UNCHANGED <<svars, evars, cvars, jvars, mvars, co>>

OpenTmp == (\E r \in Resolvers : FileOpenTmp(r)) /\ UNCHANGED <<svars, evars, cvars, jvars, mvars, co>>

ReadWrite == (\E r \in Resolvers : FileReadWrite(r)) /\ UNCHANGED <<svars, evars, cvars, jvars, mvars, co>>

Rename == (\E r \in Resolvers : FileRename(r)) /\ UNCHANGED <<svars, evars, cvars, jvars, mvars, co>>

Cleanup == (\E r \in Resolvers : FileCleanup(r)) /\ UNCHANGED <<svars, evars, cvars, jvars, mvars, co>>

Interrupt == (\E r \in Resolvers : FileInterrupt(r)) /\ UNCHANGED <<svars, evars, cvars, jvars, mvars, co>>

Del == (\E r \in Resolvers : FileDel(r)) /\ UNCHANGED <<svars, evars, cvars, jvars, mvars, co>>

FNext ==
    \/ New
    \/ Start
    \/ UrlOpen
    \/ OpenTmp
    \/ ReadWrite
    \/ Rename
    \/ Cleanup
    \/ Interrupt
    \/ Del

SpecFile == FInit /\ [][FNext]_vars

\* One resolver alone on the cache directory, making one File after the
\* other; once in the loop it goes on: read() and write() return.
Alone == \A r \in Resolvers : r > 1 => files'[r] = files[r]

Again ==
    /\ files[1].pc \in {"done", "deleted"}
    /\ files' = [files EXCEPT ![1] = NoFile]
    /\ UNCHANGED <<fs, inodes, svars, evars, cvars, jvars, mvars, co>>

LNext ==
    \/ FNext /\ Alone
    \/ Again

SpecFileLoop ==
    /\ FInit
    /\ [][LNext]_vars
    /\ WF_vars(FileReadWrite(1) /\ UNCHANGED <<svars, evars, cvars, jvars, mvars, co>>)

(***************************************************************************)
(* One caller constructing and coercing File objects                       *)
(***************************************************************************)
CInit == Init /\ scope = "plain" /\ ctor.session_id = "new"

\* Operation op on arg and kw ends as r: a new object is bound to g if it was
\* derived from f, and to f otherwise; g refers to nothing but the object the
\* last operation derived from f. An error ends the caller's run, which then
\* holds no object; the cache directory stays.
CPerform(op, arg, kw, net, r, id) ==
    /\ (r.requests = 0 /\ ~(r.kind = "raise" /\ r.val = CacheDirFailed)) => net = "ok"
    /\ cres' = [op |-> op, arg |-> arg, kw |-> kw, net |-> net, kind |-> r.kind,
                val |-> IF r.kind = "new" THEN id ELSE r.val,
                requests |-> r.requests]
    /\ objs' = [x \in ObjIds |->
                   IF r.kind = "raise" THEN <<>>
                   ELSE IF r.kind = "new" /\ x = id THEN <<r.val>>
                   ELSE IF x = "f" /\ (r.kind = "same" \/ id = "g") THEN objs[x]
                   ELSE <<>>]
    /\ fs' = r.fs
    /\ inodes' = r.inodes
    /\ UNCHANGED <<svars, evars, files, env, disk, jvars, mvars, co>>

\* FILE_CACHE_DIR is set before the first File is made.
SetCacheDir ==
    /\ env = <<>>
    /\ cres = NoCall
    /\ env' \in {<<d>> : d \in EnvCacheDirs}
    /\ UNCHANGED <<svars, evars, fvars, objs, cres, disk, jvars, mvars, co>>

\* File(uri=..., path=..., content_type=..., size=..., filename=...)
Construct ==
    \E kw \in KwArgs, net \in Nets :
        /\ net # "ok" => kw.uri # <<>>
        /\ CPerform("File", <<>>, kw, net,
                    File_init(<<>>, kw, objs, fs, inodes, env, net), "f")

\* File(v, ...) with a positional initializer v.
ConstructFrom ==
    \E v \in PyValues(objs), kw \in KwOver, net \in Nets :
        /\ kw # NoKw => v \in {[t |-> "File", id |-> "f"], [t |-> "dict", d |-> <<>>],
                                [t |-> "str", v |-> RelStr]}
        /\ CPerform("File", <<v>>, kw, net,
                    File_init(<<v>>, kw, objs, fs, inodes, env, net),
                    IF v.t = "File" THEN "g" ELSE "f")

\* A record with a File field is parsed with v as the value of the field.
Validate ==
    \E v \in PyValues(objs), net \in Nets :
        CPerform("validate", <<v>>, NoKw, net,
                 File_pydantic_validate(v, objs, fs, inodes, env, net),
                 IF v.t = "File" THEN "g" ELSE "f")

\* A record with the object f as its File field is serialized and the result
\* parsed again.
Reparse ==
    \E id \in Live(objs) \cap {"f"}, net \in Nets :
        CPerform("reparse", <<[t |-> "File", id |-> id]>>, NoKw, net,
                 File_pydantic_validate(
                     [t |-> "dict", d |-> File_pydantic_serialize(objs[id][1])],
                     objs, fs, inodes, env, net),
                 "g")

\* o.refresh_metadata() on an object the caller holds.
Refresh ==
    \E id \in Live(objs) :
        /\ objs' = [objs EXCEPT ![id] = <<File_refresh_metadata(objs[id][1], fs, inodes, env)>>]
        /\ cres' = [op |-> "refresh", arg |-> <<[t |-> "File", id |-> id]>>, kw |-> NoKw,
                    net |-> "ok", kind |-> "same", val |-> id, requests |-> 0]
        /\ UNCHANGED <<svars, evars, fvars, env, disk, jvars, mvars, co>>

\* Another program appends to ./rel.txt.
Grow ==
    /\ disk = InitialDisk
    /\ cres # NoCall
    /\ disk' = [disk EXCEPT ![<<"", "work", "rel.txt">>] = @ + @]
    /\ UNCHANGED <<svars, evars, fvars, env, objs, cres, jvars, mvars, co>>

CNext ==
    \/ SetCacheDir
    \/ Construct
    \/ ConstructFrom
    \/ Validate
    \/ Reparse
    \/ Refresh
    \/ Grow

SpecCtor == CInit /\ [][CNext]_vars

(***************************************************************************)
(* A record class is declared field by field and its schema generated      *)
(***************************************************************************)
JInit == Init /\ scope = "plain" /\ ctor.session_id = "new"

\* One more field in the body of the class.
AddField ==
    /\ schema = <<>>
    /\ Len(decl) < MaxFields
    /\ \E t \in Annotations : decl' = Append(decl, t)
    /\ UNCHANGED <<svars, evars, fvars, cvars, schema, mvars, co>>

\* model_json_schema() on the class.
JsonSchema ==
    /\ schema = <<>>
    /\ decl # <<>>
    /\ schema' = <<model_json_schema(decl)>>
    /\ UNCHANGED <<svars, evars, fvars, cvars, decl, mvars, co>>

JNext ==
    \/ AddField
    \/ JsonSchema

SpecSchema == JInit /\ [][JNext]_vars

(***************************************************************************)
(* MetaItem instances are constructed, then an OutputMeta is made of them  *)
(***************************************************************************)
MInit == Init /\ scope = "plain" /\ ctor.session_id = "new"

NewItem ==
    /\ meta = <<>>
    /\ Len(made) < MaxItems
    /\ \E cls \in MetaClasses, t \in TypeArgs : made' = Append(made, MetaItem_init(cls, t))
    /\ UNCHANGED <<svars, evars, fvars, cvars, jvars, meta, co>>

\* The first k items go to inputs, the others to outputs.
NewOutputMeta ==
    /\ meta = <<>>
    /\ \E k \in 0..Len(made) :
          meta' = <<OutputMeta_init(SubSeq(made, 1, k), SubSeq(made, k + 1, Len(made)))>>
    /\ UNCHANGED <<svars, evars, fvars, cvars, jvars, made, co>>

MNext ==
    \/ NewItem
    \/ NewOutputMeta

SpecMeta == MInit /\ [][MNext]_vars

(***************************************************************************)
(* Coroutines calling and ending one AsyncSessionHandle                    *)
(***************************************************************************)
AInit == Init /\ scope = "plain" /\ ctor.session_id = "new"

\* The request of the operation op on the handle hs.
CoRequest(op, hs) ==
    IF op = "call"
    THEN AsyncSessionHandle_call(hs, <<>>, <<>>, Ret("envelope")).sent[1].req
    ELSE AsyncSessionsAPI_end(hs.session_id, Ret("data")).sent[1].req

\* Coroutine t starts call(), end() or, as the exit of the async with-block,
\* __aexit__, and runs to its await: the flag is read and the request sent,
\* or the operation is over at once.
CoStart(t, op) ==
    /\ co.tasks[t].pc = "idle"
    /\ \A q \in Tasks : q < t => co.tasks[q].pc # "idle"
    /\ op = "exit" => \A q \in Tasks : co.tasks[q].op # "exit"
    /\ IF co.h.ended
       THEN co' = [co EXCEPT !.tasks[t] =
                      [op |-> op, pc |-> "done",
                       out |-> <<IF op = "call" THEN SessionAlreadyEnded ELSE Ret(None)>>]]
       ELSE co' = [co EXCEPT !.tasks[t] = [op |-> op, pc |-> "await", out |-> <<>>],
                             !.sent = Append(@, [task |-> t, req |-> CoRequest(op, co.h)])]

\* The transport answers the request coroutine t awaits; the coroutine runs
\* to its end: end() sets the flag if the answer is not an error.
CoResume(t, resp) ==
    /\ co.tasks[t].pc = "await"
    /\ co' = [co EXCEPT
                 !.tasks[t].pc = "done",
                 !.tasks[t].out = <<IF co.tasks[t].op = "call" \/ resp.kind = "raise"
                                    THEN resp ELSE Ret(None)>>,
                 !.h.ended = IF co.tasks[t].op # "call" /\ resp.kind = "return"
                             THEN TRUE ELSE @]

CoBegin ==
    /\ \E t \in Tasks, op \in {"call", "end", "exit"} : CoStart(t, op)
    /\ UNCHANGED <<svars, evars, fvars, cvars, jvars, mvars>>

CoAnswer ==
    /\ \E t \in Tasks, resp \in RequestResponses : CoResume(t, resp)
    /\ UNCHANGED <<svars, evars, fvars, cvars, jvars, mvars>>

ANext ==
    \/ CoBegin
    \/ CoAnswer

SpecAsync == AInit /\ [][ANext]_vars

(***************************************************************************)
(* Properties of the session handles, checked under Spec                   *)
(***************************************************************************)
\* The DELETE /sessions/{id} request for the session the handle was built with.
EndRequest == [layer |-> "request", method |-> "delete", path |-> <<"sessions", ctor.session_id>>]

\* The exchanges in l made by end() and by the scope exit of the handle.
HandleEnds(l) == SelectSeq(l, LAMBDA e : e.op \in {"end", "exit"})

\* The exchanges of the last operation.
LastSent(l) == SelectSeq(l, LAMBDA e : e.n = nops)

\* An end() or scope exit on the handle has returned normally.
EndReturned(l) == \E i \in DOMAIN l : l[i].op \in {"end", "exit"} /\ l[i].resp.kind = "return"

\* C1 as stated: once the with-block has exited, normally or by a propagated
\* error, exactly one end request for the handle's session id has been issued.
C1_ExactlyOneEndRequest ==
    scope = "exited" =>
        /\ Len(HandleEnds(log)) = 1
        /\ HandleEnds(log)[1].req = EndRequest

\* C1 amended: once the with-block has exited, at least one end request for the
\* handle's session id has been issued; every end request but the last one
\* raised, and the last one returned normally exactly when the handle is ended.
EndRequestsRetried(l, hs) ==
    LET E == HandleEnds(l)
    IN  /\ Len(E) >= 1
        /\ \A i \in DOMAIN E : E[i].req = EndRequest
        /\ \A i \in 1..(Len(E) - 1) : E[i].resp.kind = "raise"
        /\ (E[Len(E)].resp.kind = "return") <=> hs.ended

C1_EndIssuedUntilOneReturns ==
    scope = "exited" => EndRequestsRetried(log, h) /\ EndRequestsRetried(alog, ah)

\* C1 witness: the block has exited after an end() inside it raised, so a
\* second end request was issued, and that one returned.
C1_Witness ==
    /\ scope = "exited"
    /\ Len(HandleEnds(log)) = 2
    /\ HandleEnds(log)[1].resp.kind = "raise"
    /\ h.ended

\* C2 as stated: after the with-block has exited, every call() on the handle
\* fails with SessionAlreadyEnded.
C2_CallAfterExitFails ==
    (scope = "exited" /\ lastOp.name = "call") => res = SessionAlreadyEnded

\* C2 amended: after the with-block has exited, a call() fails with
\* SessionAlreadyEnded and issues nothing if an end request of the handle has
\* returned normally; otherwise the end request of the exit raised, the handle
\* is not ended and the call is forwarded to the invocation layer.
CallAfterExit(l, hs, r) ==
    IF EndReturned(l)
    THEN r = SessionAlreadyEnded /\ LastSent(l) = <<>> /\ hs.ended
    ELSE /\ \E i \in DOMAIN l : l[i].op = "exit" /\ l[i].resp.kind = "raise"
         /\ ~hs.ended
         /\ Len(LastSent(l)) = 1
         /\ LastSent(l)[1].req.layer = "run"
         /\ r = LastSent(l)[1].resp

C2_CallAfterEndedExitFails ==
    (scope = "exited" /\ lastOp.name = "call") =>
        CallAfterExit(log, h, res) /\ CallAfterExit(alog, ah, ares)

\* C2 witness: a call() after an exit whose end request returned.
C2_Witness ==
    /\ scope = "exited"
    /\ lastOp.name = "call"
    /\ res = SessionAlreadyEnded
    /\ \E i \in DOMAIN log : log[i].op = "exit" /\ log[i].resp.kind = "return"

\* C3: a call() made while the ended flag is set fails with
\* SessionAlreadyEnded, issues no invocation request and leaves the handle as
\* it was (for the blocking and for the suspending handle).
C3_CallOnEndedHandle ==
    [][ (lastOp'.name = "call" /\ nops' # nops) =>
            /\ h.ended => (res' = SessionAlreadyEnded /\ log' = log /\ h' = h)
            /\ ah.ended => (ares' = SessionAlreadyEnded /\ alog' = alog /\ ah' = ah) ]_vars

\* C3 witness: a call() was made on an ended handle and failed.
C3_Witness ==
    /\ lastOp.name = "call"
    /\ h.ended
    /\ res = SessionAlreadyEnded
    /\ LastSent(log) = <<>>

\* C4: once an end() has returned normally, every later end() (explicit or by
\* scope exit) returns without issuing a request and without changing the
\* handle, so at most one end request of a handle returns normally.
C4_EndIdempotent ==
    /\ [][ (lastOp'.name \in {"end", "exit"} /\ nops' # nops) =>
              /\ EndReturned(log) => (log' = log /\ res' = Ret(None) /\ h' = h)
              /\ EndReturned(alog) => (alog' = alog /\ ares' = Ret(None) /\ ah' = ah) ]_vars
    /\ [](Cardinality({i \in DOMAIN log :
              log[i].op \in {"end", "exit"} /\ log[i].resp.kind = "return"}) <= 1)
    /\ [](Cardinality({i \in DOMAIN alog :
              alog[i].op \in {"end", "exit"} /\ alog[i].resp.kind = "return"}) <= 1)

\* C4 witness: an end() after an end() that returned; it issued nothing.
C4_Witness ==
    /\ lastOp.name = "end"
    /\ EndReturned(log)
    /\ LastSent(log) = <<>>
    /\ res = Ret(None)

\* C5: every invocation request a handle issues carries the app and the
\* session id it was constructed with, the caller's function name ("run" when
\* omitted) and input (the empty mapping when omitted), and call() hands back
\* the answer of the invocation layer unchanged.
Pinned(l, hs, r) ==
    /\ hs.app = ctor.app
    /\ hs.session_id = ctor.session_id
    /\ \A i \in DOMAIN l :
          l[i].req.layer = "run" =>
              /\ l[i].op = "call"
              /\ l[i].req.params.app = ctor.app
              /\ l[i].req.params.session = ctor.session_id
    /\ (lastOp.name = "call" /\ LastSent(l) # <<>>) =>
          /\ Len(LastSent(l)) = 1
          /\ LastSent(l)[1].req =
                [layer |-> "run",
                 params |->
                    [app |-> ctor.app,
                     function |-> IF lastOp.function = <<>> THEN "run"
                                  ELSE lastOp.function[1],
                     input |-> IF lastOp.input = <<>> THEN {} ELSE lastOp.input[1],
                     session |-> ctor.session_id]]
          /\ r = LastSent(l)[1].resp

C5_SessionPinning == Pinned(log, h, res) /\ Pinned(alog, ah, ares)

\* C5 witness: a second call() was forwarded, with a function name and an
\* input given by the caller.
C5_Witness ==
    /\ lastOp.name = "call"
    /\ lastOp.function # <<>>
    /\ lastOp.input # <<>>
    /\ lastOp.input[1] # {}
    /\ Len(SelectSeq(log, LAMBDA e : e.req.layer = "run")) >= 2
    /\ LastSent(log) # <<>>

\* C6: driven by the same operations and the same remote answers, the blocking
\* and the suspending variants issue the same requests in the same order,
\* give the same outcomes and end with the same handle state.
C6_SyncAsyncEquivalent ==
    /\ h = ah
    /\ log = alog
    /\ res = ares

\* C6 witness: operations were performed, one of them raised, and the handle
\* was ended.
C6_Witness ==
    /\ nops >= 3
    /\ \E i \in DOMAIN alog : alog[i].resp.kind = "raise"
    /\ \E i \in DOMAIN alog : alog[i].op = "sessions.list"
    /\ ah.ended

(***************************************************************************)
(* Properties of sessions on the execution engine, checked under           *)
(* SpecEngine                                                              *)
(***************************************************************************)
\* The invocations in the log that completed.
Completed(i) == log[i].req.layer = "run" /\ log[i].resp.kind = "return"

\* The invocations before j that set key in session sid and completed.
SetsBefore(j, sid, key) ==
    {i \in 1..(j - 1) :
        /\ Completed(i)
        /\ log[i].resp.val.session_id = sid
        /\ log[i].req.params.function = "set_value"
        /\ DictGet(log[i].req.params.input, "key") = key}

Latest(S) == CHOOSE i \in S : \A j \in S : j <= i

\* C7: an invocation with session "new" that completes returns a concrete
\* session id, different from "new"; an invocation carrying a concrete id that
\* completes echoes that id, and a get_value reads back the value the latest
\* earlier set_value of the same session wrote.
C7_SessionContinuation ==
    \A j \in DOMAIN log :
        Completed(j) =>
            LET p == log[j].req.params
                out == log[j].resp.val
                W == SetsBefore(j, out.session_id, DictGet(p.input, "key"))
            IN  /\ out.session_id \in SessionIds
                /\ out.session_id # "new"
                /\ p.session # "new" => out.session_id = p.session
                /\ (p.function = "get_value" /\ W # {}) =>
                      out.output =
                         [found |-> TRUE,
                          value |-> DictGet(log[Latest(W)].req.params.input, "value")]

\* C7 witness: a session was created with "new", a value set in it, another
\* session created, and the value read back from the first by its id.
C7_Witness ==
    /\ Len(log) = 3
    /\ Completed(1) /\ Completed(2) /\ Completed(3)
    /\ log[1].req.params.session = "new"
    /\ log[1].req.params.function = "set_value"
    /\ log[2].req.params.session = "new"
    /\ log[3].req.params.session = log[1].resp.val.session_id
    /\ log[3].req.params.function = "get_value"
    /\ log[3].resp.val.output.found

\* C8: once SessionsAPI.end(id) or the end() of a handle has returned for a
\* session id, every later invocation that carries that id raises.
C8_EndedSessionRejects ==
    \A i \in DOMAIN log : \A j \in DOMAIN log :
        ( /\ i < j
          /\ log[i].op \in {"sessions.end", "end"}
          /\ log[i].resp.kind = "return"
          /\ log[j].req.layer = "run"
          /\ log[j].req.params.session = log[i].req.path[2] )
        => log[j].resp.kind = "raise"

\* C8 witness: a session was created, ended through SessionsAPI.end, and an
\* invocation carrying its id was made afterwards.
C8_Witness ==
    /\ Len(log) = 3
    /\ Completed(1)
    /\ log[2].op = "sessions.end"
    /\ log[2].resp.kind = "return"
    /\ log[2].req.path[2] = log[1].resp.val.session_id
    /\ log[3].req.layer = "run"
    /\ log[3].req.params.session = log[1].resp.val.session_id
    /\ log[3].resp = Raise("SessionEndedError")

\* The operations of SessionsAPI and the one request each of them is to send.
ApiOps == {"sessions.get", "sessions.list", "sessions.keepalive", "sessions.end"}

ApiRequest(op) ==
    CASE op.name = "sessions.get" ->
           [layer |-> "request", method |-> "get", path |-> <<"sessions", op.session_id>>]
      [] op.name = "sessions.list" ->
           [layer |-> "request", method |-> "get", path |-> <<"sessions">>]
      [] op.name = "sessions.keepalive" ->
           [layer |-> "request", method |-> "post",
            path |-> <<"sessions", op.session_id, "keepalive">>]
      [] op.name = "sessions.end" ->
           [layer |-> "request", method |-> "delete", path |-> <<"sessions", op.session_id>>]

\* What the operation hands to its caller when the transport answered resp.
ApiResult(op, resp) ==
    IF resp.kind = "raise" THEN resp
    ELSE IF op.name = "sessions.end" THEN Ret(None)
    ELSE IF op.name = "sessions.list" /\ resp.val \in {None, "[]"} THEN Ret("[]")
    ELSE resp

\* In this step the caller performed an operation of SessionsAPI.
ApiStep == nops' = nops + 1 /\ lastOp'.name \in ApiOps

\* The last exchange in l.
Newest(l) == l[Len(l)]

\* C16: get, list, keepalive and end of SessionsAPI, blocking and suspending,
\* each send exactly one request, which depends on nothing but the operation
\* and the session id it was given, whatever was done before; they hand back
\* what the transport answered (list an empty list when it answered nothing)
\* and leave the handles, the only client-side state, as they are.
C16_StatelessPassthrough ==
    [][ ApiStep =>
          /\ Len(log') = Len(log) + 1
          /\ SubSeq(log', 1, Len(log)) = log
          /\ Newest(log').n = nops'
          /\ Newest(log').req = ApiRequest(lastOp')
          /\ res' = ApiResult(lastOp', Newest(log').resp)
          /\ Len(alog') = Len(alog) + 1
          /\ SubSeq(alog', 1, Len(alog)) = alog
          /\ Newest(alog').req = ApiRequest(lastOp')
          /\ ares' = ApiResult(lastOp', Newest(alog').resp)
          /\ h' = h
          /\ ah' = ah ]_vars

\* C16 witness: after the handle has been ended, list() sent its request, the
\* transport answered nothing and the caller got an empty list.
C16_Witness ==
    /\ h.ended
    /\ lastOp.name = "sessions.list"
    /\ Len(log) >= 2
    /\ Newest(log).req = [layer |-> "request", method |-> "get", path |-> <<"sessions">>]
    /\ Newest(log).resp = Ret(None)
    /\ res = Ret("[]")
    /\ ares = Ret("[]")

\* The operations that reach the remote side: those of SessionsAPI and those
\* of a handle.
RemoteOps == ApiOps \cup {"call", "info", "keepalive", "end", "exit"}

\* The exchanges in l that operation number n made.
Attempts(l, n) == {i \in DOMAIN l : l[i].n = n}

\* In l, operation number n was answered with an error: it made that one
\* exchange and r, what its caller got, is that error.
RaisedVerbatim(l, n, r) ==
    \A i \in Attempts(l, n) :
        l[i].resp.kind = "raise" =>
            /\ r = l[i].resp
            /\ Attempts(l, n) = {i}

\* C17: when the transport answers an operation of SessionsAPI or of a handle
\* with an error, the caller gets that very error and the operation has sent
\* its one request and no other.
C17_ErrorsPropagateUnretried ==
    [][ (nops' = nops + 1 /\ lastOp'.name \in RemoteOps) =>
          /\ RaisedVerbatim(log', nops', res')
          /\ RaisedVerbatim(alog', nops', ares') ]_vars

\* C17 witness: keepalive() on the handle was answered by an error of the
\* session endpoint, which the caller got after one request.
C17_Witness ==
    /\ lastOp.name = "keepalive"
    /\ Attempts(log, nops) # {}
    /\ \A i \in Attempts(log, nops) :
           /\ log[i].req.method = "post"
           /\ log[i].resp = Raise("SessionNotFoundError")
    /\ res = Raise("SessionNotFoundError")
    /\ ares = Raise("SessionNotFoundError")
    /\ Cardinality(Attempts(log, nops)) = 1

\* C19 as stated: an end() on a handle that is not ended leaves the ended flag
\* set, whether the remote end returned or raised.
C19_EndSetsFlagAlways ==
    [][ (lastOp'.name = "end" /\ nops' # nops) =>
            /\ ~h.ended => h'.ended
            /\ ~ah.ended => ah'.ended ]_vars

\* Operation n was an end() on a handle that was not ended: in l it made one
\* exchange, the end request, and hs is ended exactly if that one returned.
EndOutcome(l, n, hs) ==
    \E i \in DOMAIN l :
        /\ Attempts(l, n) = {i}
        /\ l[i].req = EndRequest
        /\ hs.ended <=> (l[i].resp.kind = "return")

\* C19 amended: an end() on a handle that is not ended issues the end request
\* for the handle's session; afterwards the ended flag is set if the remote
\* end returned and is still clear if it raised.
C19_EndSetsFlagOnReturn ==
    [][ (lastOp'.name = "end" /\ nops' # nops) =>
            /\ ~h.ended => EndOutcome(log', nops', h')
            /\ ~ah.ended => EndOutcome(alog', nops', ah') ]_vars

\* C19 witness: an end() whose remote end raised; the flag is still clear.
C19_Witness ==
    /\ lastOp.name = "end"
    /\ Len(LastSent(log)) = 1
    /\ LastSent(log)[1].req = EndRequest
    /\ LastSent(log)[1].resp.kind = "raise"
    /\ ~h.ended

\* In l an end request of the handle raised and none has returned.
FailedEnd(l) ==
    /\ \E i \in DOMAIN l : l[i].op \in {"end", "exit"} /\ l[i].resp.kind = "raise"
    /\ ~EndReturned(l)

\* Operation op, number n, takes the handle from hs with exchanges l to hs2
\* with exchanges l2 and gives r2 to its caller.
FailedEndRetry(l, hs, l2, hs2, r2, op, n) ==
    /\ op.name \in {"end", "exit"} =>
          \A i \in Attempts(l2, n) :
              l2[i].resp.kind = "raise" => (r2 = l2[i].resp /\ ~hs2.ended)
    /\ FailedEnd(l) =>
          /\ ~hs.ended
          /\ op.name = "call" =>
                \E i \in DOMAIN l2 :
                    /\ Attempts(l2, n) = {i}
                    /\ l2[i].req.layer = "run"
                    /\ l2[i].req.params.session = ctor.session_id
                    /\ r2 = l2[i].resp
          /\ op.name \in {"end", "exit"} =>
                \E i \in DOMAIN l2 : Attempts(l2, n) = {i} /\ l2[i].req = EndRequest

\* C20: when the remote end raises, end() and the scope exit raise that error
\* and leave the ended flag clear; as long as no end request has returned
\* after that, a call() is forwarded to the invocation layer and an end() or
\* scope exit issues the end request again.
C20_FailedEndRetried ==
    [][ nops' # nops =>
            /\ FailedEndRetry(log, h, log', h', res', lastOp', nops')
            /\ FailedEndRetry(alog, ah, alog', ah', ares', lastOp', nops') ]_vars

\* C20 witness: an end() raised, the next call() was forwarded and the end()
\* after it issued the end request a second time, which returned.
C20_Witness ==
    /\ lastOp.name = "end"
    /\ h.ended
    /\ \E i, j, k \in DOMAIN log :
          /\ i < j /\ j < k /\ k = Len(log)
          /\ log[i].op = "end" /\ log[i].req = EndRequest /\ log[i].resp.kind = "raise"
          /\ log[j].op = "call" /\ log[j].req.layer = "run"
          /\ log[k].op = "end" /\ log[k].req = EndRequest /\ log[k].resp.kind = "return"

\* What info() and keepalive() ask of the session endpoint.
HandleRequest(name) ==
    IF name = "info"
    THEN [layer |-> "request", method |-> "get", path |-> <<"sessions", ctor.session_id>>]
    ELSE [layer |-> "request", method |-> "post",
          path |-> <<"sessions", ctor.session_id, "keepalive">>]

\* Operation name, number n, made one exchange in l, its request, and took
\* the handle from hs to hs2 without a change.
ReadOnlyStep(name, l, n, hs, hs2) ==
    /\ hs2 = hs
    /\ \E i \in DOMAIN l : Attempts(l, n) = {i} /\ l[i].req = HandleRequest(name)

\* C21: info() and keepalive() on a handle, ended or not, issue exactly one
\* get or keepalive request for the handle's session id and leave the app,
\* the session id and the ended flag of the handle as they were.
C21_InfoKeepaliveIgnoreFlag ==
    [][ (lastOp'.name \in {"info", "keepalive"} /\ nops' # nops) =>
            /\ ReadOnlyStep(lastOp'.name, log', nops', h, h')
            /\ ReadOnlyStep(lastOp'.name, alog', nops', ah, ah') ]_vars

\* C21 witness: a keepalive() on a handle whose end() has returned; it issued
\* its request.
C21_Witness ==
    /\ lastOp.name = "keepalive"
    /\ h.ended
    /\ EndReturned(log)
    /\ Len(LastSent(log)) = 1
    /\ LastSent(log)[1].req = HandleRequest("keepalive")

(***************************************************************************)
(* Properties of the file cache, checked under SpecFile                    *)
(***************************************************************************)
\* Resolver q has resolved the URL r is constructed with.
ResolvedBefore(q, r) ==
    /\ q # r
    /\ files[q].pc = "done"
    /\ files[r].uri = files[q].uri

\* C9: a resolution of a URL that starts after another resolution of the same
\* URL has succeeded finds the file at the cache path: it ends at once with the
\* same local path, sends no network request and leaves the cache directory
\* and the cached file as they are.
C9_CacheReuse ==
    [][ \A r \in Resolvers : \A q \in Resolvers :
          (ResolvedBefore(q, r) /\ files[r].pc = "init" /\ files'[r].pc # "init") =>
              /\ files'[r].pc = "done"
              /\ files'[r].path = files[q].path
              /\ files'[r].path = <<File_get_cache_path(files[r].uri[1])>>
              /\ fs[files'[r].path[1]] # 0
              /\ files'[r].requests = 0
              /\ files'[r].tmp_path = <<>>
              /\ fs' = fs
              /\ inodes' = inodes ]_vars

\* C9 witness: two resolutions of one URL have succeeded, the first by a
\* download, the second from the cache without a network request.
C9_Witness ==
    \E q \in Resolvers : \E r \in Resolvers :
        /\ ResolvedBefore(q, r)
        /\ files[r].pc = "done"
        /\ files[q].requests = 1
        /\ files[r].requests = 0
        /\ inodes[fs[files[r].path[1]]] = Body

\* A resolver that holds its temporary file open for writing.
Writing(r) == files[r].pc = "read" /\ files[r].fd # 0

\* C10 as stated: two resolvers downloading at the same time each write to a
\* temporary file of their own.
C10_OwnTemporaryFile ==
    \A r \in Resolvers : \A q \in Resolvers :
        (r # q /\ Writing(r) /\ Writing(q)) =>
            /\ files[r].tmp_path # files[q].tmp_path
            /\ files[r].fd # files[q].fd

\* The name of the temporary file of resolver r's download.
OwnTmp(r) == TmpPath(File_get_cache_path(files[r].uri[1]))

\* The download of resolver r has ended, by a return or by an error, and the
\* instance has not been finalized.
Exited(r) == files[r].pc \in {"done", "failed"}

\* C11 as stated: once the cache-or-download call of a resolver has returned
\* or its error has propagated, the temporary file this call created (the
\* inode it created under the temporary name) does not exist, and after a
\* successful construction the instance holds no temporary path.
C11_TemporaryFileOwnership ==
    \A r \in Resolvers :
        Exited(r) =>
            /\ fs[OwnTmp(r)] # r
            /\ files[r].pc = "done" => files[r].tmp_path = <<>>

\* The final cache paths, one per URL.
CachePaths == {File_get_cache_path(u) : u \in Urls}

\* C22: a file at a final cache path holds the complete body of one fetch, in
\* every state; so does the file a resolver adopts from the cache.
C22_CacheComplete ==
    /\ \A n \in CachePaths : fs[n] # 0 => inodes[fs[n]] = Body
    /\ \A r \in Resolvers :
          (files[r].pc = "done" /\ files[r].requests = 0) =>
              inodes[fs[files[r].path[1]]] = Body

\* Resolver r is in progress with a temporary file: it holds the file open
\* in the loop, or it has closed it and is about to rename it.
InProgress(r) == Writing(r) \/ files[r].pc = "rename"

\* The temporary file of resolver r is where r left it: the temporary name
\* is there and the file under it holds what r has written so far.
TmpIntact(r) ==
    /\ fs[OwnTmp(r)] # 0
    /\ inodes[fs[OwnTmp(r)]] = files[r].wrote

\* C31: resolver isolation. No step of another resolver (its open, the
\* cleanup of its failed download, the destructor of its abandoned instance)
\* deletes or truncates the temporary file of a resolver in progress; so a
\* resolver whose fetch and writes went through finds its temporary file at
\* the rename, and the rename succeeds as it does when the resolver is alone.
C31_ResolverIsolation ==
    \A r \in Resolvers : InProgress(r) => TmpIntact(r)

\* What resolver r has written when its loop has ended: the body, block by
\* block in order, or the body as the one block of a whole read.
LoopEnded(r) ==
    (files[r].pc \in {"rename", "done"} /\ files[r].requests > 0) =>
        /\ files[r].wrote = Body
        /\ files[r].pos = Len(Body)

\* C28: the loop of a download ends, whether the response reads in blocks or
\* only whole, giving the same body on every read; when it has ended, the
\* resolver has written the body once, its blocks in order.
C28_LoopTerminates ==
    /\ [](\A r \in Resolvers : LoopEnded(r))
    /\ \A r \in Resolvers : (files[r].pc = "read") ~> (files[r].pc # "read")

\* C28 witness: a download from a response that only reads whole is done,
\* after one write of the body.
C28_Witness ==
    \E r \in Resolvers :
        /\ files[r].pc = "done"
        /\ ~files[r].chunking
        /\ files[r].requests = 1
        /\ files[r].wrote = Body
        /\ inodes[fs[files[r].path[1]]] = Body

(***************************************************************************)
(* Properties of File construction and coercion, checked under SpecCtor    *)
(***************************************************************************)
\* The positional initializer is neither a string, a File nor a dict.
Unsupported(initializer) ==
    initializer # <<>> /\ initializer[1].t \notin {"str", "File", "dict"}

\* The last operation was a construction that failed with err before it sent
\* a request.
FailedAtOnce(err) ==
    /\ cres.kind = "raise"
    /\ cres.val = err
    /\ cres.requests = 0

\* C12: a construction that, once the initializer is taken in, has neither a
\* uri nor a path fails with MissingLocation, one with an initializer of an
\* unsupported type fails with InvalidInput; either sends no request and
\* leaves the cache directory, temporary files included, as it was.
C12_ConstructionFailure ==
    [][ (cres'.op = "File" /\ (cres'.arg # <<>> /\ cres'.arg[1].t = "File" => objs["f"] # <<>>)) =>
          LET a == File_init_args(cres'.arg, cres'.kw, objs)
          IN  /\ Unsupported(cres'.arg) =>
                    /\ FailedAtOnce(InvalidInput)'
                    /\ fs' = fs /\ inodes' = inodes
              /\ (~Unsupported(cres'.arg) /\ a.uri = <<>> /\ a.path = <<>>) =>
                    /\ FailedAtOnce(MissingLocation)'
                    /\ fs' = fs /\ inodes' = inodes ]_vars

\* C12 witness: File({}) has failed with MissingLocation and File(123) with
\* InvalidInput is the other case; here the first, with no request sent.
C12_Witness ==
    /\ cres.op = "File"
    /\ cres.arg = <<[t |-> "dict", d |-> <<>>]>>
    /\ cres.kw = NoKw
    /\ FailedAtOnce(MissingLocation)
    /\ \A n \in Names : fs[n] = 0

\* The path starts at the root.
IsAbsolute(p) == p.segs # <<>> /\ p.segs[1] = ""

\* The object o has a uri that is a non-empty string.
HasUri(o) == ~PyFalsy(o.uri, EmptyStr)

\* C13 as stated: the path of every constructed object is absolute; it is
\* the absolute form of the uri if the uri is a local path, and the computed
\* cache path if the uri is a remote URL.
C13_LocalPathIsCachePath ==
    \A id \in Live(objs) :
        LET o == objs[id][1]
        IN  /\ o.path # <<>> /\ IsAbsolute(o.path[1])
            /\ (HasUri(o) /\ ~File_is_url(o.uri[1])) =>
                    o.path[1] = os_path_abspath(StrPath(o.uri[1]))
            /\ (HasUri(o) /\ File_is_url(o.uri[1])) =>
                    o.path[1] = CachePathStr(env, o.uri[1])

\* C13, amended: the path of every constructed object is absolute; it is the
\* absolute form of the uri if the uri is a local path, and the absolute form
\* of the computed cache path if the uri is a remote URL (the two differ when
\* FILE_CACHE_DIR names a relative directory).
C13_LocalPathAbsolute ==
    \A id \in Live(objs) :
        LET o == objs[id][1]
        IN  /\ o.path # <<>> /\ IsAbsolute(o.path[1])
            /\ (HasUri(o) /\ ~File_is_url(o.uri[1])) =>
                    o.path[1] = os_path_abspath(StrPath(o.uri[1]))
            /\ (HasUri(o) /\ File_is_url(o.uri[1])) =>
                    o.path[1] = os_path_abspath(CachePathStr(env, o.uri[1]))

\* C13 witness: with a relative FILE_CACHE_DIR the caller holds f, made from
\* a remote URL and pointing into the cache below the working directory, and
\* g, made from f.
C13_Witness ==
    /\ env # <<>>
    /\ Live(objs) = {"f", "g"}
    /\ objs["f"][1].uri = <<RemoteStr>>
    /\ objs["f"][1].path[1].segs = Cwd \o env[1]
    /\ objs["f"][1].path[1].tail = <<File_get_cache_path(RemoteStr)>>
    /\ fs[File_get_cache_path(RemoteStr)] # 0

\* The objects a and b agree on the five fields.
SameFields(a, b) == \A k \in FieldNames : a[k] = b[k]

\* C14: serializing a constructed object f and parsing the dict again gives
\* an object with the uri, path, content_type, size and filename of f.
C14_SerializationRoundTrip ==
    cres.op = "reparse" =>
        /\ cres.kind = "new"
        /\ Live(objs) = {"f", "g"}
        /\ SameFields(objs["g"][1], objs["f"][1])

\* C14 witness: an object made from a local path with metadata supplied by the
\* caller, and one made from a remote URL, are the interesting cases; here f
\* carries supplied metadata that differs from what the file would give, and
\* has been serialized and parsed again.
C14_Witness ==
    /\ cres.op = "reparse"
    /\ cres.kind = "new"
    /\ objs["f"][1].uri = <<RelStr>>
    /\ objs["f"][1].content_type = <<"application/json">>
    /\ objs["f"][1].size = <<7>>
    /\ objs["g"][1].size = <<7>>

\* v is a string, or a mapping with no keys but the five fields.
Coercible(v) == v.t = "str" \/ (v.t = "dict" /\ DOMAIN v.d \subseteq FieldNames)

FileJson == [type |-> "string", format |-> "file"]

\* C18: in the schema of a record class, a File field is FileJson in place,
\* an Optional[File] field the union of FileJson and null, a List[File] field
\* an array with FileJson as its items, and "$defs" has no entry for File.
C18_SchemaShape ==
    schema # <<>> =>
        /\ "File" \notin schema[1].defs
        /\ \A i \in DOMAIN decl :
              LET t == decl[i]
                  js == schema[1].properties[i]
              IN  /\ t.k = "File" => js = FileJson
                  /\ (t.k = "Optional" /\ t.of.k = "File") =>
                          js = [anyOf |-> <<FileJson, [type |-> "null"]>>]
                  /\ (t.k = "List" /\ t.of.k = "File") =>
                          js = [type |-> "array", items |-> FileJson]
                  /\ (t.k = "Optional" /\ t.of.k = "List") =>
                          js = [anyOf |-> <<[type |-> "array", items |-> FileJson],
                                            [type |-> "null"]>>]

\* C18 witness: the schema of a class with an Optional[File], a List[File] and
\* a File field, in this order, as in test_file_schema.
C18_Witness ==
    /\ schema # <<>>
    /\ decl = << [k |-> "Optional", of |-> [k |-> "File"]],
                 [k |-> "List", of |-> [k |-> "File"]],
                 [k |-> "File"] >>
    /\ schema[1].properties[1].anyOf[1] = FileJson
    /\ schema[1].properties[2].items = FileJson
    /\ schema[1].defs = {}

\* The last construction or coercion came to download a remote origin and
\* the network or the local disk failed it.
DownloadBroke == cres # NoCall /\ cres.net # "ok"

\* C23: a construction whose download failed, by the network or by the local
\* disk, raises a RuntimeError that names the URL and the cause, and leaves
\* the caller without an object.
C23_DownloadFailedSurfaces ==
    DownloadBroke =>
        /\ cres.kind = "raise"
        /\ cres.val = DownloadFailed(RemoteStr, cres.net)
        /\ \A id \in ObjIds : objs[id] = <<>>

\* The metadata fields of a File.
MetaNames == {"content_type", "size", "filename"}

\* The last operation was File(...) with keyword arguments only, and it made
\* the object f.
ConstructedByKw == cres # NoCall /\ cres.op = "File" /\ cres.arg = <<>> /\ cres.kind = "new"

\* C24: a constructed File carries every metadata value the caller supplied,
\* 0 and the empty string included.
C24_SuppliedMetadataKept ==
    ConstructedByKw =>
        \A k \in MetaNames : cres.kw[k] # <<>> => objs["f"][1][k] = cres.kw[k]

\* The last operation was File(f, ...), a construction from the object f,
\* and it made the object g.
CopiedFromFile ==
    /\ cres # NoCall
    /\ cres.op = "File"
    /\ cres.arg = <<[t |-> "File", id |-> "f"]>>
    /\ cres.kind = "new"

\* The value of field k of an object made with v supplied for it: a path is
\* stored in its absolute form.
StoredAs(k, v) == IF k = "path" THEN <<os_path_abspath(v[1])>> ELSE v

\* C25: in a File constructed from a File with keyword arguments, a field
\* given by keyword has the value given and any other field the value it has
\* in the source.
C25_CopyWithOverride ==
    CopiedFromFile =>
        \A k \in FieldNames :
            objs["g"][1][k] = IF cres.kw[k] # <<>> THEN StoredAs(k, cres.kw[k])
                              ELSE objs["f"][1][k]

\* The last operation was File(...) with keyword arguments only or with a
\* string and no keyword argument.
PlainConstruction ==
    /\ cres # NoCall
    /\ cres.op = "File"
    /\ \/ cres.arg = <<>>
       \/ cres.arg # <<>> /\ cres.arg[1].t = "str" /\ cres.kw = NoKw

\* The uri it was given.
GivenUri == IF cres.arg = <<>> THEN cres.kw.uri ELSE <<cres.arg[1].v>>

\* The local path it names: the uri if there is one, the path otherwise.
GivenTarget ==
    IF ~PyFalsy(GivenUri, EmptyStr) THEN os_path_abspath(StrPath(GivenUri[1]))
    ELSE os_path_abspath(cres.kw.path[1])

\* It names a local path at which there is no file.
TargetMissing ==
    /\ PlainConstruction
    /\ ~PyFalsy(GivenUri, EmptyStr) \/ ~PyFalsy(cres.kw.path, EmptyPath)
    /\ PyFalsy(GivenUri, EmptyStr) \/ ~File_is_url(GivenUri[1])
    /\ ~os_path_exists(GivenTarget, fs, env)

\* C26: a construction that names a local path where no file is succeeds;
\* the object has the metadata the caller gave, no more, and the absolute
\* form of the path.
C26_MissingFileSkipsMetadata ==
    TargetMissing =>
        /\ cres.kind = "new"
        /\ objs["f"] # <<>>
        /\ \A k \in MetaNames : objs["f"][1][k] = cres.kw[k]
        /\ objs["f"][1].path = <<GivenTarget>>
        /\ IsAbsolute(objs["f"][1].path[1])

\* C26 witness: File(uri="/data/missing.bin", content_type="", size=0,
\* filename="") has been made; it has no metadata but what it was given.
C26_Witness ==
    /\ TargetMissing
    /\ cres.kw.uri = <<MissingStr>>
    /\ cres.kw.size = <<0>>
    /\ objs["f"] # <<>>
    /\ objs["f"][1].size = <<0>>
    /\ objs["f"][1].filename = <<"">>

\* o2 is what a refresh makes of the object o.
Refreshed(o, o2) ==
    IF o.path # <<>> /\ os_path_exists(o.path[1], fs, env)
    THEN /\ o2.content_type = mimetypes_guess_type(os_path_basename(o.path[1]))
         /\ o2.size = <<os_path_getsize(o.path[1], fs, inodes)>>
         /\ o2.filename = <<os_path_basename(o.path[1])>>
         /\ o2.uri = o.uri
         /\ o2.path = o.path
    ELSE o2 = o

\* C27: refresh_metadata() on an object whose file exists replaces content
\* type, size and filename by those of the file as it is now, whatever they
\* were; on an object whose file does not exist it changes nothing.
C27_RefreshRecomputes ==
    [][ (cres'.op = "refresh" /\ disk' = disk /\ <<cres, objs>>' # <<cres, objs>>) =>
            /\ objs[cres'.val] # <<>>
            /\ objs'[cres'.val] # <<>>
            /\ Refreshed(objs[cres'.val][1], objs'[cres'.val][1])
            /\ \A id \in ObjIds \ {cres'.val} : objs'[id] = objs[id] ]_vars

\* C27 witness: the object f was made of ./rel.txt, the file grew, and after
\* a refresh f has the size of the grown file.
C27_Witness ==
    /\ cres.op = "refresh"
    /\ cres.val = "f"
    /\ disk # InitialDisk
    /\ objs["f"] # <<>>
    /\ objs["f"][1].path = <<LocalPath(<<"", "work", "rel.txt">>)>>
    /\ objs["f"][1].size = <<disk[<<"", "work", "rel.txt">>]>>
    /\ objs["f"][1].size # <<InitialDisk[<<"", "work", "rel.txt">>]>>

(***************************************************************************)
(* Properties of the output metadata, checked under SpecMeta               *)
(***************************************************************************)
\* C29: every MetaItem instance has the type of its variant, however it was
\* constructed, and an OutputMeta has its inputs and outputs in the order
\* given, duplicates included.
C29_ClosedTaggedUnion ==
    /\ \A i \in DOMAIN made : made[i].type = MetaItemType(made[i].cls)
    /\ meta # <<>> => meta[1].inputs \o meta[1].outputs = made

(***************************************************************************)
(* Properties of concurrent use of a handle, checked under SpecAsync       *)
(***************************************************************************)
\* The places in the requests sent where an end request is.
EndsSent == {i \in DOMAIN co.sent : co.sent[i].req.layer = "request"}

\* C30: whatever the interleaving of the coroutines on one handle, at most
\* one end request is sent, and no invocation request is sent by a call()
\* that starts after an end() has sent its request.
C30_ConcurrentEndOnce ==
    /\ Cardinality(EndsSent) <= 1
    /\ \A i \in EndsSent : \A j \in DOMAIN co.sent :
          j > i => co.sent[j].req.layer # "run"

====
